---- MODULE Spec2Model ----
(***************************************************************************)
(* restlink: the route / documentation synthesis of Exposer, ExposerFlask, *)
(* API and SchemaREST / SchemaDB, as a state machine.                       *)
(*                                                                         *)
(* Strings are sequences of one-character strings, so that os.path.join,   *)
(* str.lstrip, Path.stem and the f-string endpoint / key formats are        *)
(* computed character by character as the code computes them.              *)
(***************************************************************************)
EXTENDS Integers, Sequences, FiniteSets, TLC

VARIABLES
    apis,            \* Exposer._apis: key -> [api, schemas]
    created,         \* every route handed to _route_create, in call order
    flask_app,       \* ExposerFlask._flask_app (0 is None)
    url_rule_queue,  \* ExposerFlask._url_rule_queue
    app_rules,       \* per Flask app: the url_map, in order of addition
    app_views,       \* per Flask app: view_functions, endpoint -> function
    api_spec,        \* per API object: API._spec
    api_doc,         \* per API object: API._doc_json_copy / _doc_view_fn
    schema_exposer,  \* per schema object: SchemaREST._exposer is set
    base_path,       \* Exposer._base_path
    calls,           \* the public calls made on the exposer, and how each ended
    db,              \* the database session: records, committed records, next id
    policy,          \* whether the schema class overrides the validators
    nreq,            \* number of requests served so far
    trace,           \* the last request served: inputs, handler call, response
    db_log,          \* the rows the session inserted and deleted, in order
    pure_args,       \* the arguments a function is evaluated on
    pure_ret,        \* what the function returned, once evaluated
    db_session_getter_fn,  \* Exposer._db_session_getter_fn (0 is None)
    getter_calls     \* per session getter callback: the times it was called

vars == <<apis, created, flask_app, url_rule_queue, app_rules, app_views,
          api_spec, api_doc, schema_exposer, base_path, calls,
          db, policy, nreq, trace, db_log, pure_args, pure_ret,
          db_session_getter_fn, getter_calls>>

reqvars == <<db, policy, nreq, trace, db_log>>

purevars == <<pure_args, pure_ret>>

sessvars == <<db_session_getter_fn, getter_calls>>

-----------------------------------------------------------------------------
(* Bounds of the model.                                                     *)

MaxCalls == 3
MaxApps == 2
MaxId == 3
MaxAllowedLen == 2
MaxReqs == 2
MaxSessionOps == 4

-----------------------------------------------------------------------------
(* Strings.                                                                 *)

SLASH == <<"/">>
USCORE == <<"_">>
NoneStr == <<"None">>

StartsWithSlash(s) == Len(s) > 0 /\ s[1] = "/"
EndsWithSlash(s) == Len(s) > 0 /\ s[Len(s)] = "/"

RECURSIVE LStripSlash(_)
LStripSlash(s) ==
    IF StartsWithSlash(s) THEN LStripSlash(Tail(s)) ELSE s

\* Joining with a slash whatever the component starts with; C21 must tell it
\* from PathJoin2.
PathJoin2Plain(path, b) ==
    IF Len(path) = 0 \/ EndsWithSlash(path) THEN path \o b
    ELSE path \o SLASH \o b

\* posixpath.join(a, b) for one further component.
PathJoin2(path, b) ==
    IF StartsWithSlash(b) THEN b
    ELSE IF Len(path) = 0 \/ EndsWithSlash(path) THEN path \o b
    ELSE path \o SLASH \o b

RECURSIVE PathJoin(_, _)
PathJoin(a, ps) ==
    IF Len(ps) = 0 THEN a ELSE PathJoin(PathJoin2(a, Head(ps)), Tail(ps))

\* The index of the last occurrence of character c in s, 0 when absent.
RECURSIVE RFind(_, _)
RFind(s, c) ==
    IF Len(s) = 0 THEN 0
    ELSE IF s[Len(s)] = c THEN Len(s)
    ELSE RFind(SubSeq(s, 1, Len(s) - 1), c)

RECURSIVE RStripSlash(_)
RStripSlash(s) ==
    IF EndsWithSlash(s) THEN RStripSlash(SubSeq(s, 1, Len(s) - 1)) ELSE s

\* pathlib.PurePosixPath(p).name: the last non-empty component.
PathName(p) ==
    LET q == RStripSlash(p)
        i == RFind(q, "/")
    IN  SubSeq(q, i + 1, Len(q))

\* pathlib.PurePosixPath(p).stem: the name without its last suffix.
PathStem(p) ==
    LET n == PathName(p)
        i == RFind(n, ".")
    IN  IF 1 < i /\ i < Len(n) THEN SubSeq(n, 1, i - 1) ELSE n

ToLower(verb) ==
    CASE verb = "GET" -> "get"
      [] verb = "POST" -> "post"
      [] verb = "PUT" -> "put"
      [] verb = "DELETE" -> "delete"
      [] OTHER -> verb

\* The characters of an HTTP verb, for the endpoint f-string.
VerbChars(verb) ==
    CASE verb = "GET" -> <<"G", "E", "T">>
      [] verb = "POST" -> <<"P", "O", "S", "T">>
      [] verb = "PUT" -> <<"P", "U", "T">>
      [] verb = "DELETE" -> <<"D", "E", "L", "E", "T", "E">>
      [] OTHER -> <<"?">>

\* route_type[0]
RouteTypeInitial(route_type) ==
    CASE route_type = "general" -> <<"g">>
      [] route_type = "specific" -> <<"s">>
      [] OTHER -> <<"?">>

-----------------------------------------------------------------------------
(* SchemaREST: the declarative description of a resource.                   *)

ErrorBody == "error_object"

\* SchemaREST._method_map_ (the class default), as an ordered mapping:
\* verb -> route type -> method data. "data" is "None" when the key is absent.
DefaultMethodMap == <<
    [verb |-> "GET", types |-> <<
        [rtype |-> "specific",
         md |-> [function |-> "get", hasParams |-> FALSE, params |-> <<>>,
                 hasData |-> FALSE, data |-> "None",
                 responses |-> << <<"200", "_schema_">>, <<"403", ErrorBody>>,
                                  <<"404", ErrorBody>> >>]],
        [rtype |-> "general",
         md |-> [function |-> "list", hasParams |-> TRUE,
                 params |-> <<"filter">>,
                 hasData |-> FALSE, data |-> "None",
                 responses |-> << <<"200", "id_list">>, <<"400", ErrorBody>>,
                                  <<"403", ErrorBody>> >>]] >>],
    [verb |-> "POST", types |-> <<
        [rtype |-> "general",
         md |-> [function |-> "post", hasParams |-> FALSE, params |-> <<>>,
                 hasData |-> TRUE, data |-> "_schema_",
                 responses |-> << <<"200", "_schema_">>, <<"400", ErrorBody>>,
                                  <<"403", ErrorBody>>, <<"404", ErrorBody>> >>]] >>],
    [verb |-> "PUT", types |-> <<
        [rtype |-> "specific",
         md |-> [function |-> "put", hasParams |-> FALSE, params |-> <<>>,
                 hasData |-> TRUE, data |-> "_schema_",
                 responses |-> << <<"200", "_schema_">>, <<"400", ErrorBody>>,
                                  <<"403", ErrorBody>>, <<"404", ErrorBody>> >>]] >>],
    [verb |-> "DELETE", types |-> <<
        [rtype |-> "specific",
         md |-> [function |-> "delete", hasParams |-> FALSE, params |-> <<>>,
                 hasData |-> FALSE, data |-> "None",
                 responses |-> << <<"200", "None">>, <<"400", ErrorBody>>,
                                  <<"403", ErrorBody>>, <<"404", ErrorBody>> >>]] >>]
>>

\* A _method_map_ written by end-use code: two params on one entry, a 'data'
\* key holding None, a 'data' key holding a literal schema, and an entry
\* with neither 'params' nor 'data'.
CustomMethodMap == <<
    [verb |-> "GET", types |-> <<
        [rtype |-> "general",
         md |-> [function |-> "list", hasParams |-> TRUE,
                 params |-> <<"filter", "page">>,
                 hasData |-> FALSE, data |-> "None",
                 responses |-> << <<"200", "id_list">> >>]] >>],
    [verb |-> "POST", types |-> <<
        [rtype |-> "general",
         md |-> [function |-> "post", hasParams |-> FALSE, params |-> <<>>,
                 hasData |-> TRUE, data |-> "None",
                 responses |-> << <<"200", "_schema_">>, <<"204", "None">> >>]] >>],
    [verb |-> "PUT", types |-> <<
        [rtype |-> "specific",
         md |-> [function |-> "put", hasParams |-> TRUE,
                 params |-> <<"force">>,
                 hasData |-> TRUE, data |-> "patch",
                 responses |-> << <<"200", "None">> >>]] >>]
>>

\* The schema instances of the model: _rest_path_ and _allowed_methods_ of
\* each; the last one has CustomMethodMap, the others the default
\* _method_map_.
SchemaTable == <<
    [rest_path |-> <<"/", "r">>,
     allowed |-> <<"GET", "POST", "PUT", "DELETE">>],
    [rest_path |-> <<"c", "_", "r">>,
     allowed |-> <<"GET">>],
    [rest_path |-> <<"/", "d", "o", "c", "s">>,
     allowed |-> <<"GET">>],
    [rest_path |-> <<"x", "/", "r", ".", "j">>,
     allowed |-> <<"POST", "DELETE">>],
    [rest_path |-> <<"m">>,
     allowed |-> <<"GET", "POST", "PUT">>]
>>

SchemaObjs == DOMAIN SchemaTable

SeqContains(seq, x) == \E i \in DOMAIN seq : seq[i] = x

\* SchemaREST.path
SchemaPath(s) == LStripSlash(SchemaTable[s].rest_path)

\* SchemaREST.name
SchemaName(s) == PathStem(SchemaPath(s))

\* A variant of ExposedOfVerb that does not look at the allowed list; C10
\* must tell it from ExposedOfVerb.
RECURSIVE ExposedOfVerbUnfiltered(_, _, _)
ExposedOfVerbUnfiltered(verb, types, allowed) ==
    IF Len(types) = 0 THEN <<>>
    ELSE << [verb |-> verb, rtype |-> Head(types).rtype,
             function |-> Head(types).md.function,
             params |-> IF Head(types).md.hasParams
                        THEN Head(types).md.params ELSE <<>>] >>
         \o ExposedOfVerbUnfiltered(verb, Tail(types), allowed)

\* The inner loop of exposed_methods: the route types of one verb.
RECURSIVE ExposedOfVerb(_, _, _)
ExposedOfVerb(verb, types, allowed) ==
    IF Len(types) = 0 THEN <<>>
    ELSE (IF SeqContains(allowed, verb)
          THEN << [verb |-> verb, rtype |-> Head(types).rtype,
                   function |-> Head(types).md.function,
                   params |-> IF Head(types).md.hasParams
                              THEN Head(types).md.params ELSE <<>>] >>
          ELSE <<>>)
         \o ExposedOfVerb(verb, Tail(types), allowed)

\* allowed_methods without the check against the keys of the method map.
AllowedMethodsUnchecked(mm, allowed) ==
    [raised |-> "None", ret |-> allowed]

\* SchemaREST.allowed_methods, for a method map and an allowed list: a
\* ValueError at the first verb that is no key of the map, else the list.
AllowedMethods(mm, allowed) ==
    LET valid == {mm[k].verb : k \in DOMAIN mm}
    IN  IF \E i \in DOMAIN allowed : allowed[i] \notin valid
        THEN [raised |-> "ValueError", ret |-> <<>>]
        ELSE [raised |-> "None", ret |-> allowed]

\* SchemaREST.exposed_methods, for a method map and an allowed list.
RECURSIVE ExposedMethods(_, _)
ExposedMethods(mm, allowed) ==
    IF Len(mm) = 0 THEN <<>>
    ELSE ExposedOfVerb(Head(mm).verb, Head(mm).types, allowed)
         \o ExposedMethods(Tail(mm), allowed)

\* The _method_map_ of a schema instance.
MethodMapOf(s) == IF s = 5 THEN CustomMethodMap ELSE DefaultMethodMap

SchemaExposedMethods(s) ==
    ExposedMethods(MethodMapOf(s), SchemaTable[s].allowed)

\* dict.get(verb, {}).get(route_type): the method data, or a "None" marker.
MethodLookup(mm, verb, rtype) ==
    LET vs == {i \in DOMAIN mm : mm[i].verb = verb}
    IN  IF vs = {} THEN [found |-> FALSE, md |-> mm[1].types[1].md]
        ELSE LET ts == mm[CHOOSE i \in vs : TRUE].types
                 js == {j \in DOMAIN ts : ts[j].rtype = rtype}
             IN  IF js = {} THEN [found |-> FALSE, md |-> mm[1].types[1].md]
                 ELSE [found |-> TRUE, md |-> ts[CHOOSE j \in js : TRUE].md]

\* SchemaREST.method_get for a pair known to be in the map.
MethodGet(s, verb, rtype) == MethodLookup(MethodMapOf(s), verb, rtype).md

\* SchemaREST.doc_get_operation_params
RECURSIVE QueryParams(_)
QueryParams(names) ==
    IF Len(names) = 0 THEN <<>>
    ELSE << [name |-> Head(names), in |-> "query"] >> \o QueryParams(Tail(names))

DocGetOperationParams(s, verb, rtype) ==
    LET md == MethodGet(s, verb, rtype)
        allowed_params == IF md.hasParams THEN md.params ELSE <<>>
    IN  (IF rtype = "specific"
         THEN << [name |-> "id", in |-> "path"] >> ELSE <<>>)
        \o QueryParams(allowed_params)

\* A variant of DocGetOperationRequestBody that documents a body for every
\* entry with a 'data' key, a None one too; C19 must tell it from
\* DocGetOperationRequestBody.
DocGetOperationRequestBodyOfKey(s, verb, rtype) ==
    LET md == MethodGet(s, verb, rtype)
    IN  IF ~md.hasData THEN [present |-> FALSE, schema |-> <<>>]
        ELSE IF md.data = "_schema_"
             THEN [present |-> TRUE, schema |-> SchemaName(s)]
             ELSE [present |-> TRUE, schema |-> <<md.data>>]

\* SchemaREST.doc_get_operation_request_body: "None", or the schema the body
\* carries (the schema's own name for "_schema_").
DocGetOperationRequestBody(s, verb, rtype) ==
    LET md == MethodGet(s, verb, rtype)
        request_data == IF md.hasData THEN md.data ELSE "None"
    IN  IF request_data = "None" THEN [present |-> FALSE, schema |-> <<>>]
        ELSE IF request_data = "_schema_"
             THEN [present |-> TRUE, schema |-> SchemaName(s)]
             ELSE [present |-> TRUE, schema |-> <<request_data>>]

\* SchemaREST.doc_get_operation_response
RECURSIVE DocResponses(_, _)
DocResponses(s, rs) ==
    IF Len(rs) = 0 THEN <<>>
    ELSE << [code |-> Head(rs)[1],
             kind |-> IF Head(rs)[2] = "None" THEN "description"
                      ELSE "content",
             schema |-> IF Head(rs)[2] = "None" THEN <<>>
                        ELSE IF Head(rs)[2] = "_schema_" THEN SchemaName(s)
                        ELSE <<Head(rs)[2]>>] >>
         \o DocResponses(s, Tail(rs))

DocGetOperationResponse(s, verb, rtype) ==
    DocResponses(s, MethodGet(s, verb, rtype).responses)

-----------------------------------------------------------------------------
(* API: one conceptual API space with its own specification document.       *)

\* The API instances of the model (name, version).
ApiTable == <<
    [name |-> <<"a">>, version |-> <<"v">>],
    [name |-> <<"a">>, version |-> <<"v", "_", "c">>],
    [name |-> <<"a", "_", "v">>, version |-> <<"c">>]
>>

ApiObjs == DOMAIN ApiTable

\* API.key
ApiKey(a) == ApiTable[a].name \o USCORE \o ApiTable[a].version

\* API.path_root_get
PathRootGet(a, base) ==
    IF base = NoneStr
    THEN PathJoin(SLASH, <<ApiTable[a].name, ApiTable[a].version>>)
    ELSE PathJoin(SLASH, <<base, ApiTable[a].name, ApiTable[a].version>>)

\* API.path_resource_get
PathResourceGet(path_root, s) == PathJoin(path_root, <<SchemaName(s)>>)

\* API.path_get_docs
PathGetDocs(path_root) == PathJoin(path_root, << <<"d", "o", "c", "s">> >>)


\* A fresh APISpec: no servers option, no components, no paths.
EmptySpec == [hasServers |-> FALSE, servers |-> <<>>,
              components |-> <<>>, paths |-> <<>>]

\* APISpec.to_dict followed by the JSON round trip of docs_regen: a snapshot
\* of the document, with "servers" and "components" present only when set.
SpecToDict(spec) ==
    [paths |-> spec.paths,
     hasComponents |-> Len(spec.components) > 0,
     components |-> spec.components,
     hasServers |-> spec.hasServers,
     servers |-> spec.servers]

\* API.docs_regen: the value doc_view_fn serves from now on.
DocsRegen(spec) == [regen |-> TRUE, doc |-> SpecToDict(spec)]

\* API.doc_set_servers, on the spec
DocSetServers(spec, a, base) ==
    [spec EXCEPT !.hasServers = TRUE, !.servers = << PathRootGet(a, base) >>]

\* The relative documentation path of one route of a schema.
DocUrlRoute(s, rtype) ==
    LET url_rel == PathJoin(<<>>, <<SchemaName(s)>>)
    IN  IF rtype = "general" THEN url_rel
        ELSE url_rel \o <<"/", "{", "i", "d", "}">>

\* The operation object built for one exposed method.
DocOperation(s, verb, rtype) ==
    [parameters |-> DocGetOperationParams(s, verb, rtype),
     responses |-> DocGetOperationResponse(s, verb, rtype),
     requestBody |-> DocGetOperationRequestBody(s, verb, rtype)]

\* Setting key v of an ordered mapping (a sequence of [k, v] records): a new
\* key is appended, an existing key keeps its place.
DictSet(d, k, v) ==
    IF \E i \in DOMAIN d : d[i].k = k
    THEN [i \in DOMAIN d |-> IF d[i].k = k THEN [k |-> k, v |-> v] ELSE d[i]]
    ELSE Append(d, [k |-> k, v |-> v])

DictHas(d, k) == \E i \in DOMAIN d : d[i].k = k

DictGet(d, k) == d[CHOOSE i \in DOMAIN d : d[i].k = k].v

DictKeys(d) == {d[i].k : i \in DOMAIN d}

\* dict.update
RECURSIVE DictUpdate(_, _)
DictUpdate(d, e) ==
    IF Len(e) = 0 THEN d
    ELSE DictUpdate(DictSet(d, Head(e).k, Head(e).v), Tail(e))

\* The loop of _doc_add_schema_paths that fills the local "paths" mapping.
RECURSIVE DocPathsOf(_, _, _)
DocPathsOf(s, methods, paths) ==
    IF Len(methods) = 0 THEN paths
    ELSE LET m == Head(methods)
             url_route == DocUrlRoute(s, m.rtype)
             ops == IF DictHas(paths, url_route)
                    THEN DictGet(paths, url_route) ELSE <<>>
             ops1 == DictSet(ops, ToLower(m.verb),
                             DocOperation(s, m.verb, m.rtype))
         IN  DocPathsOf(s, Tail(methods), DictSet(paths, url_route, ops1))

\* APISpec.path for each entry: operations are merged into the path's entry.
RECURSIVE SpecAddPaths(_, _)
SpecAddPaths(spec_paths, paths) ==
    IF Len(paths) = 0 THEN spec_paths
    ELSE LET p == Head(paths)
             old == IF DictHas(spec_paths, p.k)
                    THEN DictGet(spec_paths, p.k) ELSE <<>>
         IN  SpecAddPaths(DictSet(spec_paths, p.k, DictUpdate(old, p.v)),
                          Tail(paths))

\* API._doc_add_schema_paths
DocAddSchemaPaths(spec, s) ==
    [spec EXCEPT !.paths =
        SpecAddPaths(@, DocPathsOf(s, SchemaExposedMethods(s), <<>>))]

\* API.doc_add_schema on the spec (the regeneration is done by the caller).
DocAddSchema(spec, s) ==
    DocAddSchemaPaths([spec EXCEPT !.components = Append(@, SchemaName(s))], s)


-----------------------------------------------------------------------------
(* SchemaDB over a database session, and the values requests carry.         *)

IntVals == {"0", "1"}

Ids == 1..MaxId

\* A JSON body (request.get_json(silent=True)): None, or an object.
BodyNone == [isNone |-> TRUE, items |-> <<>>]
Body(items) == [isNone |-> FALSE, items |-> items]

\* A parsed request parameter value: a JSON object or a JSON string.
ValDict(items) == [t |-> "dict", items |-> items]
ValStr == [t |-> "str", items |-> <<>>]

\* What a handler returns and a response carries.
PNone == [t |-> "none", id |-> 0, w |-> "", ro |-> "", ids |-> <<>>, msg |-> ""]
PRec(id, rec) == [PNone EXCEPT !.t = "rec", !.id = id, !.w = rec.w, !.ro = rec.ro]
PIds(ids) == [PNone EXCEPT !.t = "ids", !.ids = ids]
PErr(msg) == [PNone EXCEPT !.t = "error", !.msg = msg]
PDoc(a) == [PNone EXCEPT !.t = "doc", !.id = a]

NoExc == [kind |-> "None", code |-> 0, msg |-> ""]

\* RESTException(http_code, message)
RESTException(code, msg) == [kind |-> "RESTException", code |-> code, msg |-> msg]

OtherException(kind) == [kind |-> kind, code |-> 0, msg |-> ""]

\* The records a session starts from: ids 1 and 2 exist and are committed.
InitRecords ==
    [i \in {1, 2} |-> [w |-> IF i = 1 THEN "0" ELSE "1", ro |-> "5", io |-> "s",
                        sc |-> IF i = 1 THEN "p" ELSE "q"]]

\* The id the table gives the next inserted row. Canal.id is an integer
\* primary key of an SQLite table declared without AUTOINCREMENT: one more
\* than the largest id in use, so the id of a deleted last row is given again.
NextRowId(recs) ==
    IF DOMAIN recs = {} THEN 1
    ELSE (CHOOSE m \in DOMAIN recs : \A j \in DOMAIN recs : j <= m) + 1

InitDb ==
    [records |-> InitRecords, committed |-> InitRecords,
     next_id |-> NextRowId(InitRecords)]

\* The schema's fields: "id" and "ro" are dump-only, "w" is an integer field
\* that can be loaded, "io" and "sec" are excluded at construction. "sec" is
\* a getter/setter of the model over the column "sc", which
\* _field_db_remap_ names.
SchemaExclude == {"io", "sec"}
LoadFields == {"w"}

\* The mapped columns of the model class, and its other class attributes.
ModelColumns == {"id", "w", "ro", "io", "sc"}
ModelOtherAttrs == {"metadata", "sec"}

\* SchemaDB._field_db_remap_
FieldDbRemap == << [k |-> "sec", v |-> "sc"] >>

\* A variant of HasValidationErrors that lets dump-only fields through; C9
\* must tell it from HasValidationErrors.
HasValidationErrorsDumpOnlyOk(data) ==
    \/ data.isNone
    \/ \E i \in DOMAIN data.items :
          \/ data.items[i].k \notin LoadFields \cup {"ro"}
          \/ data.items[i].v \notin IntVals

\* marshmallow's validation of a body against the schema: TRUE when it
\* reports errors (wrong input type, unknown field, wrong value type).
HasValidationErrors(data) ==
    \/ data.isNone
    \/ \E i \in DOMAIN data.items :
          \/ data.items[i].k \notin LoadFields
          \/ data.items[i].v \notin IntVals

\* SchemaREST.handle_error
HandleError == RESTException(400, "validation_failed")

\* SchemaDB.record_get_from_db: is there a record of that id
RecordExists(d, id) == id \in DOMAIN d.records

NotFound == RESTException(404, "does_not_exist")

\* A variant of ActGet that looks at the committed rows only, not at what the
\* session holds; C11 must tell it from ActGet.
ActGetCommitted(d, id) ==
    IF id \notin DOMAIN d.committed
    THEN [db |-> d, validated |-> "none", exc |-> NotFound, result |-> PNone]
    ELSE [db |-> d, validated |-> "none", exc |-> NoExc,
          result |-> PRec(id, d.committed[id])]

\* SchemaDB._get
ActGet(d, id) ==
    IF ~RecordExists(d, id)
    THEN [db |-> d, validated |-> "none", exc |-> NotFound, result |-> PNone]
    ELSE [db |-> d, validated |-> "none", exc |-> NoExc,
          result |-> PRec(id, d.records[id])]

\* SchemaDB._create, with the post_load hook of the fixture schema
\* (make_canal: a new record from data['width'], added and flushed).
ActCreate(d, data) ==
    IF HasValidationErrors(data)
    THEN [db |-> d, validated |-> "failed", exc |-> HandleError, result |-> PNone]
    ELSE IF ~DictHas(data.items, "w")
    THEN [db |-> d, validated |-> "ok", exc |-> OtherException("KeyError"),
          result |-> PNone]
    ELSE LET rec == [w |-> DictGet(data.items, "w"), ro |-> "5", io |-> "s",
                     sc |-> "p"]
             id == d.next_id
             recs == [i \in DOMAIN d.records \cup {id} |->
                         IF i = id THEN rec ELSE d.records[i]]
         IN  [db |-> [d EXCEPT !.records = recs, !.next_id = NextRowId(recs)],
              validated |-> "ok", exc |-> NoExc, result |-> PRec(id, rec)]

\* The setattr loop of _update.
RECURSIVE SetAttrs(_, _)
SetAttrs(rec, items) ==
    IF Len(items) = 0 THEN rec
    ELSE SetAttrs([rec EXCEPT ![Head(items).k] = Head(items).v], Tail(items))

\* A variant of ActUpdate that leaves the commit out; C12 must tell it from
\* ActUpdate.
ActUpdateNoCommit(d, id, data) ==
    IF ~RecordExists(d, id)
    THEN [db |-> d, validated |-> "none", exc |-> NotFound, result |-> PNone]
    ELSE IF HasValidationErrors(data)
    THEN [db |-> d, validated |-> "failed", exc |-> HandleError, result |-> PNone]
    ELSE LET rec == SetAttrs(d.records[id], data.items)
             recs == [d.records EXCEPT ![id] = rec]
         IN  [db |-> [d EXCEPT !.records = recs],
              validated |-> "ok", exc |-> NoExc, result |-> PRec(id, rec)]

\* A variant of ActUpdate that validates the data before it looks the record
\* up; C28 must tell it from ActUpdate.
ActUpdateValidateFirst(d, id, data) ==
    IF HasValidationErrors(data)
    THEN [db |-> d, validated |-> "failed", exc |-> HandleError, result |-> PNone]
    ELSE IF ~RecordExists(d, id)
    THEN [db |-> d, validated |-> "ok", exc |-> NotFound, result |-> PNone]
    ELSE LET rec == SetAttrs(d.records[id], data.items)
             recs == [d.records EXCEPT ![id] = rec]
         IN  [db |-> [d EXCEPT !.records = recs, !.committed = recs],
              validated |-> "ok", exc |-> NoExc, result |-> PRec(id, rec)]

\* SchemaDB._update
ActUpdate(d, id, data) ==
    IF ~RecordExists(d, id)
    THEN [db |-> d, validated |-> "none", exc |-> NotFound, result |-> PNone]
    ELSE IF HasValidationErrors(data)
    THEN [db |-> d, validated |-> "failed", exc |-> HandleError, result |-> PNone]
    ELSE LET rec == SetAttrs(d.records[id], data.items)
             recs == [d.records EXCEPT ![id] = rec]
         IN  [db |-> [d EXCEPT !.records = recs, !.committed = recs],
              validated |-> "ok", exc |-> NoExc, result |-> PRec(id, rec)]

\* A variant of ActDelete that commits without having deleted the record;
\* C13 must tell it from ActDelete.
ActDeleteKeeps(d, id) ==
    IF ~RecordExists(d, id)
    THEN [db |-> d, validated |-> "none", exc |-> NotFound, result |-> PNone]
    ELSE [db |-> [d EXCEPT !.committed = d.records],
          validated |-> "none", exc |-> NoExc, result |-> PNone]

\* SchemaDB._delete
ActDelete(d, id) ==
    IF ~RecordExists(d, id)
    THEN [db |-> d, validated |-> "none", exc |-> NotFound, result |-> PNone]
    ELSE LET recs == [i \in DOMAIN d.records \ {id} |-> d.records[i]]
         IN  [db |-> [d EXCEPT !.records = recs, !.committed = recs,
                               !.next_id = NextRowId(recs)],
              validated |-> "none", exc |-> NoExc, result |-> PNone]

\* The value of a column of a record, as the WHERE clause compares it.
ColumnValue(id, rec, col) == IF col = "id" THEN ToString(id) ELSE rec[col]

\* A variant of ListWhere that does not translate keys through
\* _field_db_remap_; C14 must tell it from ListWhere.
RECURSIVE ListWhereNoRemap(_, _)
ListWhereNoRemap(items, wheres) ==
    IF Len(items) = 0 THEN [exc |-> NoExc, wheres |-> wheres]
    ELSE LET k == Head(items).k
         IN  IF k \notin ModelColumns \cup ModelOtherAttrs
             THEN [exc |-> RESTException(400, "no_such_field"), wheres |-> wheres]
             ELSE IF k \notin ModelColumns
             THEN [exc |-> RESTException(400, "not_a_column"), wheres |-> wheres]
             ELSE IF k \in SchemaExclude
             THEN [exc |-> RESTException(401, "excluded"), wheres |-> wheres]
             ELSE ListWhereNoRemap(Tail(items),
                                   Append(wheres, [k |-> k, v |-> Head(items).v]))

\* The filter loop of _list: the WHERE clauses, or the exception raised.
RECURSIVE ListWhere(_, _)
ListWhere(items, wheres) ==
    IF Len(items) = 0 THEN [exc |-> NoExc, wheres |-> wheres]
    ELSE LET k0 == Head(items).k
             k == IF DictHas(FieldDbRemap, k0) THEN DictGet(FieldDbRemap, k0)
                  ELSE k0
         IN  IF k \notin ModelColumns \cup ModelOtherAttrs
             THEN [exc |-> RESTException(400, "no_such_field"), wheres |-> wheres]
             ELSE IF k \notin ModelColumns
             THEN [exc |-> RESTException(400, "not_a_column"), wheres |-> wheres]
             ELSE IF k \in SchemaExclude
             THEN [exc |-> RESTException(401, "excluded"), wheres |-> wheres]
             ELSE ListWhere(Tail(items),
                            Append(wheres, [k |-> k, v |-> Head(items).v]))

\* The ids of a set, in ascending order.
RECURSIVE SortedIds(_)
SortedIds(S) ==
    IF S = {} THEN <<>>
    ELSE LET m == CHOOSE x \in S : \A y \in S : x <= y
         IN  <<m>> \o SortedIds(S \ {m})

\* SchemaDB._list; filter is [given, val]: not given is filter=None.
ActList(d, filter) ==
    IF ~filter.given
    THEN [db |-> d, validated |-> "none", exc |-> NoExc,
          result |-> PIds(SortedIds(DOMAIN d.records))]
    ELSE IF filter.val.t # "dict"
    THEN [db |-> d, validated |-> "none",
          exc |-> OtherException("AttributeError"), result |-> PNone]
    ELSE LET w == ListWhere(filter.val.items, <<>>)
         IN  IF w.exc.kind # "None"
             THEN [db |-> d, validated |-> "none", exc |-> w.exc, result |-> PNone]
             ELSE [db |-> d, validated |-> "none", exc |-> NoExc,
                   result |-> PIds(SortedIds(
                       {i \in DOMAIN d.records :
                           \A j \in DOMAIN w.wheres :
                               ColumnValue(i, d.records[i], w.wheres[j].k)
                                   = w.wheres[j].v}))]


-----------------------------------------------------------------------------
(* Requests: SchemaREST's handlers, the transfer function and its wrapper.  *)

\* A variant of the class defaults that also grants write access; C6 must
\* tell it from ValidatorReturn.
ValidatorReturnAllWrite(which, answer) ==
    IF policy = "default" THEN TRUE ELSE answer

\* SchemaREST.validate_can_read / validate_can_write: the class defaults
\* (read TRUE, write FALSE), or the answer of an overriding schema class.
ValidatorReturn(which, answer) ==
    IF policy = "default" THEN which = "read" ELSE answer

Forbidden(which) ==
    RESTException(403, IF which = "read" THEN "no_read_access"
                       ELSE "no_write_access")

\* A positional argument of a handler call.
ArgId(id) == [t |-> "id", id |-> id, data |-> BodyNone]
ArgData(data) == [t |-> "data", id |-> 0, data |-> data]

\* The keyword argument "filter" of list(), None when not passed.
FilterOf(kwargs) ==
    IF DictHas(kwargs, "filter")
    THEN [given |-> TRUE, val |-> DictGet(kwargs, "filter")]
    ELSE [given |-> FALSE, val |-> ValStr]

\* A variant of Guarded that forwards to the _action before looking at the
\* validator's answer; C5 must tell it from Guarded.
GuardedLate(d, which, vid, answer, action, act) ==
    [db |-> act.db, validator |-> which, vid |-> vid,
     allowed |-> ValidatorReturn(which, answer), action |-> action,
     validated |-> act.validated,
     exc |-> IF ValidatorReturn(which, answer) THEN act.exc
             ELSE Forbidden(which),
     result |-> IF ValidatorReturn(which, answer) THEN act.result ELSE PNone]

\* A handler run: which validator it consulted, with which id (0 is None)
\* and with what answer, the _action it forwarded to, and the outcome.
Guarded(d, which, vid, answer, action, act) ==
    IF ~ValidatorReturn(which, answer)
    THEN [db |-> d, validator |-> which, vid |-> vid, allowed |-> FALSE,
          action |-> "none", validated |-> "none",
          exc |-> Forbidden(which), result |-> PNone]
    ELSE [db |-> act.db, validator |-> which, vid |-> vid, allowed |-> TRUE,
          action |-> action, validated |-> act.validated,
          exc |-> act.exc, result |-> act.result]

\* A get that looks the record up before it asks the validator; C27 must
\* tell it from SchemaGet.
SchemaGetLookupFirst(d, id, answer) ==
    IF ~RecordExists(d, id)
    THEN [db |-> d, validator |-> "read", vid |-> id,
          allowed |-> ValidatorReturn("read", answer), action |-> "_get",
          validated |-> "none", exc |-> NotFound, result |-> PNone]
    ELSE Guarded(d, "read", id, answer, "_get", ActGet(d, id))

\* SchemaREST.get
SchemaGet(d, id, answer) ==
    Guarded(d, "read", id, answer, "_get", ActGet(d, id))

\* SchemaREST.post
SchemaPost(d, data, answer) ==
    Guarded(d, "write", 0, answer, "_create", ActCreate(d, data))

\* SchemaREST.put
SchemaPut(d, id, data, answer) ==
    Guarded(d, "write", id, answer, "_update", ActUpdate(d, id, data))

\* SchemaREST.delete
SchemaDelete(d, id, answer) ==
    Guarded(d, "write", id, answer, "_delete", ActDelete(d, id))

\* SchemaREST.list
SchemaList(d, filter, answer) ==
    Guarded(d, "read", 0, answer, "_list", ActList(d, filter))

\* getattr(schema, function_name)(*args, **kwargs)
CallHandler(d, function, args, kwargs, answer) ==
    CASE function = "get" -> SchemaGet(d, args[1].id, answer)
      [] function = "post" -> SchemaPost(d, args[1].data, answer)
      [] function = "put" -> SchemaPut(d, args[1].id, args[2].data, answer)
      [] function = "delete" -> SchemaDelete(d, args[1].id, answer)
      [] function = "list" -> SchemaList(d, FilterOf(kwargs), answer)

\* A variant of FilterParams that forwards every parameter; C4 must tell it
\* from FilterParams.
FilterParamsAll(params, allowed_params) == params

\* The parameter filter of the transfer function.
RECURSIVE FilterParams(_, _)
FilterParams(params, allowed_params) ==
    IF Len(params) = 0 THEN <<>>
    ELSE (IF SeqContains(allowed_params, Head(params).k)
          THEN <<Head(params)>> ELSE <<>>)
         \o FilterParams(Tail(params), allowed_params)

\* A variant of TransferArgs that passes the id to general GET routes as
\* well; C3 must tell it from TransferArgs.
TransferArgsIdAlways(verb, rtype, id, data) ==
    CASE verb = "GET" -> [bound |-> TRUE, args |-> <<ArgId(id)>>]
      [] verb = "POST" /\ rtype = "general" ->
            [bound |-> TRUE, args |-> <<ArgData(data)>>]
      [] verb = "PUT" /\ rtype # "general" ->
            [bound |-> TRUE, args |-> <<ArgId(id), ArgData(data)>>]
      [] verb = "DELETE" /\ rtype # "general" ->
            [bound |-> TRUE, args |-> <<ArgId(id)>>]
      [] OTHER -> [bound |-> FALSE, args |-> <<>>]

\* The "switch case" of the transfer function: the positional arguments, and
\* whether the branch taken binds "args" at all.
TransferArgs(verb, rtype, id, data) ==
    CASE verb = "GET" /\ rtype = "general" -> [bound |-> TRUE, args |-> <<>>]
      [] verb = "GET" /\ rtype # "general" ->
            [bound |-> TRUE, args |-> <<ArgId(id)>>]
      [] verb = "POST" /\ rtype = "general" ->
            [bound |-> TRUE, args |-> <<ArgData(data)>>]
      [] verb = "PUT" /\ rtype # "general" ->
            [bound |-> TRUE, args |-> <<ArgId(id), ArgData(data)>>]
      [] verb = "DELETE" /\ rtype # "general" ->
            [bound |-> TRUE, args |-> <<ArgId(id)>>]
      [] OTHER -> [bound |-> FALSE, args |-> <<>>]

NoHandlerRun(d, exc) ==
    [db |-> d, called |-> FALSE, function |-> "", args |-> <<>>,
     kwargs |-> <<>>, validator |-> "none", vid |-> 0, allowed |-> FALSE,
     action |-> "none", validated |-> "none", exc |-> exc, result |-> PNone]

\* transfer_function(id, data, params) of _transfer_function_create
TransferFunction(fn, d, id, data, params, answer) ==
    LET kwargs == FilterParams(params, fn.params)
        ta == TransferArgs(fn.verb, fn.rtype, id, data)
    IN  IF ~ta.bound
        THEN NoHandlerRun(d, OtherException("UnboundLocalError"))
        ELSE LET h == CallHandler(d, fn.function, ta.args, kwargs, answer)
             IN  [db |-> h.db, called |-> TRUE, function |-> fn.function,
                  args |-> ta.args, kwargs |-> kwargs,
                  validator |-> h.validator, vid |-> h.vid,
                  allowed |-> h.allowed, action |-> h.action,
                  validated |-> h.validated, exc |-> h.exc,
                  result |-> h.result]

\* The function behind the docs route: API.doc_view_fn's fn(*args, **kwargs).
DocViewFunction(fn, d) ==
    [NoHandlerRun(d, NoExc) EXCEPT !.called = TRUE,
                                   !.function = fn.function,
                                   !.result = PDoc(fn.api)]

\* The parameter loop of wrapped(): json.loads of every request value.
RECURSIVE ParseParams(_)
ParseParams(raw) ==
    IF Len(raw) = 0 THEN <<>>
    ELSE << [k |-> Head(raw).k, v |-> Head(raw).v.val] >> \o ParseParams(Tail(raw))

AllJson(raw) == \A i \in DOMAIN raw : raw[i].v.json

\* jsonify(payload), with a status code
JsonResponse(payload, status) ==
    [kind |-> "json", status |-> status, body |-> payload]

\* An exception that wrapped() does not catch leaves it.
Unhandled == [kind |-> "unhandled", status |-> 500, body |-> PNone]

\* A variant of WrapResponse that answers a RESTException with status 200;
\* C8 must tell it from WrapResponse.
WrapResponseAlways200(run) ==
    IF run.exc.kind = "None" THEN JsonResponse(run.result, 200)
    ELSE IF run.exc.kind = "RESTException"
    THEN JsonResponse(PErr(run.exc.msg), 200)
    ELSE Unhandled

\* The response of wrapped() for a run of the transfer function.
WrapResponse(run) ==
    IF run.exc.kind = "None" THEN JsonResponse(run.result, 200)
    ELSE IF run.exc.kind = "RESTException"
    THEN JsonResponse(PErr(run.exc.msg), run.exc.code)
    ELSE Unhandled

\* wrapped(id) of ExposerFlask._transfer_function_wrap, for one request
Wrapped(fn, d, id, data, raw, answer) ==
    IF ~AllJson(raw)
    THEN LET run == NoHandlerRun(d, OtherException("JSONDecodeError"))
         IN  [run |-> run, resp |-> WrapResponse(run)]
    ELSE LET run == IF fn.kind = "docs" THEN DocViewFunction(fn, d)
                    ELSE TransferFunction(fn, d, id, data, ParseParams(raw),
                                          answer)
         IN  [run |-> run, resp |-> WrapResponse(run)]


\* No function: the placeholder of a trace before any request.
NoFn ==
    [kind |-> "none", api |-> 0, schema |-> 0, verb |-> "", rtype |-> "",
     function |-> "", params |-> <<>>, id |-> 0]

NoTrace ==
    [fn |-> NoFn, id |-> 0, data |-> BodyNone, raw |-> <<>>, answer |-> FALSE,
     before |-> InitDb, run |-> NoHandlerRun(InitDb, NoExc),
     resp |-> JsonResponse(PNone, 0)]

\* The request values of the model.
JsonParam(v) == [json |-> TRUE, val |-> v]
NonJsonParam == [json |-> FALSE, val |-> ValStr]

Handshake == [k |-> "handshake", v |-> JsonParam(ValStr)]

FilterParam(items) == [k |-> "filter", v |-> JsonParam(ValDict(items))]

RawParamsCommon ==
    { <<>>,
      <<Handshake>>,
      <<FilterParam(<< [k |-> "w", v |-> "1"] >>), Handshake>>,
      << [k |-> "token", v |-> NonJsonParam] >> }

RawParamsList ==
    RawParamsCommon \cup
    { <<FilterParam(<<>>)>>,
      <<FilterParam(<< [k |-> "w", v |-> "1"], [k |-> "ro", v |-> "5"] >>)>>,
      <<FilterParam(<< [k |-> "sec", v |-> "q"] >>)>>,
      <<FilterParam(<< [k |-> "sc", v |-> "q"] >>)>>,
      <<FilterParam(<< [k |-> "io", v |-> "s"] >>)>>,
      <<FilterParam(<< [k |-> "zz", v |-> "1"] >>)>>,
      <<FilterParam(<< [k |-> "metadata", v |-> "1"] >>)>>,
      << [k |-> "filter", v |-> JsonParam(ValStr)] >> }

BodiesCommon == { BodyNone, Body(<< [k |-> "w", v |-> "1"] >>) }

BodiesWrite ==
    BodiesCommon \cup
    { Body(<<>>),
      Body(<< [k |-> "w", v |-> "x"] >>),
      Body(<< [k |-> "ro", v |-> "1"] >>) }

\* The inputs a request to the route of function fn is drawn from: the URL
\* gives an id to specific routes only.
IdsFor(fn) == IF fn.rtype = "general" THEN {0} ELSE Ids
BodiesFor(fn) == IF fn.verb \in {"POST", "PUT"} THEN BodiesWrite ELSE BodiesCommon
RawParamsFor(fn) == IF fn.function = "list" THEN RawParamsList ELSE RawParamsCommon
AnswersFor(fn) ==
    IF fn.kind = "docs" \/ policy = "default" THEN {TRUE} ELSE BOOLEAN

-----------------------------------------------------------------------------
(* Exposer / ExposerFlask.                                                  *)

BasePaths == { SLASH, <<"b">>, <<"/", "b">> }

Apps == 1..MaxApps

\* The mutable state a public call threads through its steps; "raised" names
\* the exception that ended the call, "None" while it runs.
CallState ==
    [apis |-> apis, api_spec |-> api_spec, api_doc |-> api_doc,
     created |-> created, queue |-> url_rule_queue,
     rules |-> app_rules, views |-> app_views, raised |-> "None"]

\* Flask.add_url_rule(rule, endpoint, view_func, methods=[verb]): the rule
\* joins the url map, then an endpoint already bound to another function is
\* refused with an AssertionError.
AddUrlRule(st, app, r) ==
    LET st1 == [st EXCEPT !.rules[app] = Append(@, r)]
    IN  IF DictHas(st.views[app], r.endpoint)
           /\ DictGet(st.views[app], r.endpoint) # r.fn
        THEN [st1 EXCEPT !.raised = "AssertionError"]
        ELSE [st1 EXCEPT !.views[app] = DictSet(@, r.endpoint, r.fn)]

\* ExposerFlask._route_create
RouteCreate(st, rule, endpoint, fn, verb) ==
    LET r == [rule |-> rule, endpoint |-> endpoint,
              fn |-> [fn EXCEPT !.id = Len(st.created) + 1], verb |-> verb]
        st1 == [st EXCEPT !.created = Append(@, r)]
    IN  IF flask_app = 0
        THEN [st1 EXCEPT !.queue = Append(@, r)]
        ELSE AddUrlRule(st1, flask_app, r)

\* The function api.doc_view_fn, wrapped: it serves the API's document.
DocsViewFn(a) ==
    [kind |-> "docs", api |-> a, schema |-> 0, verb |-> "GET",
     rtype |-> "general", function |-> "doc_view_fn", params |-> <<>>,
     id |-> 0]

\* Exposer._transfer_function_create: the closure over its arguments.
TransferFunctionCreate(s, verb, rtype, function, params) ==
    [kind |-> "transfer", api |-> 0, schema |-> s, verb |-> verb,
     rtype |-> rtype, function |-> function, params |-> params, id |-> 0]

\* f"{api.name}_{api.version}_docs"
DocsEndpoint(a) ==
    ApiTable[a].name \o USCORE \o ApiTable[a].version \o USCORE
        \o <<"d", "o", "c", "s">>

\* f"{api.name}_{api.version}_{schema.name}_{http_verb}_{route_type[0]}"
ResourceEndpoint(a, s, verb, rtype) ==
    ApiTable[a].name \o USCORE \o ApiTable[a].version \o USCORE
        \o SchemaName(s) \o USCORE \o VerbChars(verb) \o USCORE
        \o RouteTypeInitial(rtype)

\* _route_rule_for without the id matcher of specific routes.
RouteRuleForNoId(rtype, a, s) ==
    PathResourceGet(PathRootGet(a, base_path), s)

\* Exposer._route_rule_for
RouteRuleFor(rtype, a, s) ==
    LET url_base == PathResourceGet(PathRootGet(a, base_path), s)
    IN  IF rtype = "general" THEN url_base
        ELSE url_base \o <<"/", "<", "s", "t", "r", "i", "n", "g", ":",
                           "i", "d", ">">>

\* Exposer._register_api
RegisterApi(st, a) ==
    LET spec1 == DocSetServers(st.api_spec[a], a, base_path)
        st1 == [st EXCEPT !.api_spec[a] = spec1,
                          !.api_doc[a] = DocsRegen(spec1),
                          !.apis = DictSet(@, ApiKey(a),
                                           [api |-> a, schemas |-> <<>>])]
    IN  RouteCreate(st1, PathGetDocs(PathRootGet(a, base_path)),
                    DocsEndpoint(a), DocsViewFn(a), "GET")

\* Exposer._routes_create: one route per exposed method, until one raises.
RECURSIVE RoutesCreateLoop(_, _, _, _)
RoutesCreateLoop(st, a, s, methods) ==
    IF Len(methods) = 0 \/ st.raised # "None" THEN st
    ELSE LET m == Head(methods)
             fn == TransferFunctionCreate(s, m.verb, m.rtype, m.function,
                                          m.params)
         IN  RoutesCreateLoop(
                 RouteCreate(st, RouteRuleFor(m.rtype, a, s),
                             ResourceEndpoint(a, s, m.verb, m.rtype),
                             fn, m.verb),
                 a, s, Tail(methods))

RoutesCreate(st, a, s) == RoutesCreateLoop(st, a, s, SchemaExposedMethods(s))

\* The duplicate test of register_schema.
SchemaNameRegistered(st, a, s) ==
    DictHas(DictGet(st.apis, ApiKey(a)).schemas, SchemaName(s))

\* Exposer.register_schema after the back-link: the call state it ends in.
RegisterSchemaSteps(st0, a, s) ==
    LET st1 == IF DictHas(st0.apis, ApiKey(a)) THEN st0
               ELSE RegisterApi(st0, a)
    IN  IF st1.raised # "None" THEN st1
        ELSE IF SchemaNameRegistered(st1, a, s)
        THEN [st1 EXCEPT !.raised = "ValueError"]
        ELSE LET entry == DictGet(st1.apis, ApiKey(a))
                 spec2 == DocAddSchema(st1.api_spec[a], s)
                 st2 == [st1 EXCEPT
                            !.apis = DictSet(@, ApiKey(a),
                                [entry EXCEPT !.schemas =
                                    DictSet(@, SchemaName(s), s)]),
                            !.api_spec[a] = spec2,
                            !.api_doc[a] = DocsRegen(spec2)]
             IN  RoutesCreate(st2, a, s)

\* ExposerFlask.init_app: the deferred rules are added, until one raises.
RECURSIVE InitAppLoop(_, _, _)
InitAppLoop(st, app, queue) ==
    IF Len(queue) = 0 \/ st.raised # "None" THEN st
    ELSE InitAppLoop(AddUrlRule(st, app, Head(queue)), app, Tail(queue))

\* The session getter callbacks end-use code may set; the n-th call of
\* callback cb returns the session [cb |-> cb, n |-> n].
Callbacks == {1, 2}

\* A database_session that calls the getter on the first access only and
\* hands out that session from then on.
DatabaseSessionCached(getter, ncalls) ==
    IF getter = 0
    THEN [raised |-> "ValueError", ret |-> <<>>, ncalls |-> ncalls]
    ELSE IF ncalls[getter] = 0
    THEN [raised |-> "None", ret |-> << [cb |-> getter, n |-> 1] >>,
          ncalls |-> [ncalls EXCEPT ![getter] = 1]]
    ELSE [raised |-> "None", ret |-> << [cb |-> getter, n |-> 1] >>,
          ncalls |-> ncalls]

\* Exposer.database_session: a ValueError while no getter is set, else the
\* result of calling the getter now.
DatabaseSession(getter, ncalls) ==
    IF getter = 0
    THEN [raised |-> "ValueError", ret |-> <<>>, ncalls |-> ncalls]
    ELSE [raised |-> "None",
          ret |-> << [cb |-> getter, n |-> ncalls[getter] + 1] >>,
          ncalls |-> [ncalls EXCEPT ![getter] = @ + 1]]

\* No function under evaluation.
NoPureArgs == [mm |-> <<>>, allowed |-> <<>>]
NoPureRet == [done |-> FALSE, fn |-> "none", val |-> <<>>]

\* A fresh exposer, no app bound, nothing registered.
InitExposer ==
    /\ apis = <<>>
    /\ created = <<>>
    /\ flask_app = 0
    /\ url_rule_queue = <<>>
    /\ app_rules = [p \in Apps |-> <<>>]
    /\ app_views = [p \in Apps |-> <<>>]
    /\ api_spec = [a \in ApiObjs |-> EmptySpec]
    /\ api_doc = [a \in ApiObjs |-> [regen |-> FALSE, doc |-> SpecToDict(EmptySpec)]]
    /\ schema_exposer = [s \in SchemaObjs |-> FALSE]
    /\ base_path \in BasePaths
    /\ calls = <<>>
    /\ db_session_getter_fn = 0
    /\ getter_calls = [cb \in Callbacks |-> 0]

Init ==
    /\ InitExposer
    /\ db = InitDb
    /\ policy = "custom"
    /\ nreq = 0
    /\ trace = NoTrace
    /\ db_log = <<>>
    /\ pure_args = NoPureArgs
    /\ pure_ret = NoPureRet

\* exposer.register_schema(api, schema)
RegisterSchema(a, s) ==
    /\ Len(calls) < MaxCalls
    /\ \E st \in {RegisterSchemaSteps(CallState, a, s)} :
           /\ apis' = st.apis
           /\ api_spec' = st.api_spec
           /\ api_doc' = st.api_doc
           /\ created' = st.created
           /\ url_rule_queue' = st.queue
           /\ app_rules' = st.rules
           /\ app_views' = st.views
           /\ calls' = Append(calls,
                  [op |-> "register_schema", a |-> a, s |-> s, app |-> 0,
                   result |-> st.raised])
    /\ schema_exposer' = [schema_exposer EXCEPT ![s] = TRUE]
    /\ UNCHANGED <<flask_app, base_path>>
    /\ UNCHANGED reqvars
    /\ UNCHANGED purevars
    /\ UNCHANGED sessvars

\* exposer.init_app(app)
InitApp(app) ==
    /\ Len(calls) < MaxCalls
    /\ \E st \in {InitAppLoop(CallState, app, url_rule_queue)} :
           /\ app_rules' = st.rules
           /\ app_views' = st.views
           /\ calls' = Append(calls,
                  [op |-> "init_app", a |-> 0, s |-> 0, app |-> app,
                   result |-> st.raised])
    /\ flask_app' = app
    /\ UNCHANGED <<apis, created, url_rule_queue, api_spec, api_doc,
                   schema_exposer, base_path>>
    /\ UNCHANGED reqvars
    /\ UNCHANGED purevars
    /\ UNCHANGED sessvars

Next ==
    \/ \E a \in ApiObjs, s \in SchemaObjs : RegisterSchema(a, s)
    \/ \E app \in Apps : InitApp(app)

Spec == Init /\ [][Next]_vars


\* The call state of a fresh exposer.
FreshCallState ==
    [apis |-> <<>>, api_spec |-> [a \in ApiObjs |-> EmptySpec],
     api_doc |-> [a \in ApiObjs |->
                     [regen |-> FALSE, doc |-> SpecToDict(EmptySpec)]],
     created |-> <<>>, queue |-> <<>>,
     rules |-> [p \in Apps |-> <<>>], views |-> [p \in Apps |-> <<>>],
     raised |-> "None"]

\* An exposer bound to Flask app 1 with schema 1 registered under API 1, the
\* session holding two records, and no request served yet.
InitReq ==
    /\ flask_app = 1
    /\ base_path = <<"b">>
    /\ \E st \in {RegisterSchemaSteps(FreshCallState, 1, 1)} :
           /\ apis = st.apis
           /\ api_spec = st.api_spec
           /\ api_doc = st.api_doc
           /\ created = st.created
           /\ url_rule_queue = st.queue
           /\ app_rules = st.rules
           /\ app_views = st.views
           /\ calls = << [op |-> "init_app", a |-> 0, s |-> 0, app |-> 1,
                          result |-> "None"],
                         [op |-> "register_schema", a |-> 1, s |-> 1,
                          app |-> 0, result |-> st.raised] >>
    /\ schema_exposer = [s \in SchemaObjs |-> s = 1]
    /\ db_session_getter_fn = 1
    /\ getter_calls = [cb \in Callbacks |-> 0]
    /\ db = InitDb
    /\ policy \in {"default", "custom"}
    /\ nreq = 0
    /\ trace = NoTrace
    /\ db_log = <<>>
    /\ pure_args = NoPureArgs
    /\ pure_ret = NoPureRet

\* The log of inserted and deleted rows after a run of wrapped().
LogOf(log, run, id) ==
    IF run.exc # NoExc THEN log
    ELSE IF run.action = "_create"
    THEN Append(log, [op |-> "insert", id |-> run.result.id])
    ELSE IF run.action = "_delete"
    THEN Append(log, [op |-> "delete", id |-> id])
    ELSE log

\* One HTTP request to rule i of the bound Flask app: Flask calls the view
\* function of the rule's endpoint, with the id of the URL when the rule has
\* one.
Request(i) ==
    /\ nreq < MaxReqs
    /\ flask_app # 0
    /\ \E fn \in {DictGet(app_views[flask_app], app_rules[flask_app][i].endpoint)} :
       \E id \in IdsFor(fn), data \in BodiesFor(fn), raw \in RawParamsFor(fn),
          answer \in AnswersFor(fn) :
           /\ fn.function = "post" => db.next_id <= MaxId
           /\ \E w \in {Wrapped(fn, db, id, data, raw, answer)} :
                  /\ db' = w.run.db
                  /\ trace' = [fn |-> fn, id |-> id, data |-> data, raw |-> raw,
                               answer |-> answer, before |-> db,
                               run |-> w.run, resp |-> w.resp]
                  /\ db_log' = LogOf(db_log, w.run, id)
    /\ nreq' = nreq + 1
    /\ UNCHANGED <<apis, created, flask_app, url_rule_queue, app_rules,
                   app_views, api_spec, api_doc, schema_exposer, base_path,
                   calls, policy>>
    /\ UNCHANGED purevars
    /\ UNCHANGED sessvars

NextReq == \E i \in 1..Len(app_rules[flask_app]) : Request(i)

SpecReq == InitReq /\ [][NextReq]_vars

-----------------------------------------------------------------------------
(* SchemaREST.exposed_methods over method maps and allowed lists.           *)

\* The verbs and route types method maps are built from, and the verbs an
\* allowed list may name.
MapVerbs == {"GET", "POST"}
MapRouteTypes == {"general", "specific"}
AllowedVerbs == {"GET", "POST", "PUT"}

\* The method data of one (verb, route type) entry, with or without a
\* 'params' key.
MethodData(verb, rtype, hasParams) ==
    [function |-> ToLower(verb) \o "_" \o rtype, hasParams |-> hasParams,
     params |-> IF hasParams THEN <<"filter">> ELSE <<>>,
     hasData |-> FALSE, data |-> "None", responses |-> <<>>]

\* The ordered dicts route type -> method data of a verb.
TypeDicts(verb) ==
    LET one == {[rtype |-> r, md |-> MethodData(verb, r, h)] :
                    r \in MapRouteTypes, h \in BOOLEAN}
    IN  {<<>>} \cup {<<e>> : e \in one}
        \cup {q \in one \X one : q[1].rtype # q[2].rtype}

VerbEntries ==
    UNION {{[verb |-> v, types |-> ts] : ts \in TypeDicts(v)} : v \in MapVerbs}

\* The ordered dicts verb -> route types: the method maps.
MethodMaps ==
    {<<>>} \cup {<<e>> : e \in VerbEntries}
    \cup {q \in VerbEntries \X VerbEntries : q[1].verb # q[2].verb}

\* The lists _allowed_methods_ can hold.
AllowedLists ==
    UNION {[1..n -> AllowedVerbs] : n \in 0..MaxAllowedLen}

\* A schema class with some method map and some allowed list, its
\* exposed_methods not yet read.
InitPure ==
    /\ InitExposer
    /\ db = InitDb
    /\ policy = "custom"
    /\ nreq = 0
    /\ trace = NoTrace
    /\ db_log = <<>>
    /\ pure_args \in [mm : MethodMaps, allowed : AllowedLists]
    /\ pure_ret = NoPureRet

\* schema.exposed_methods
ExposedMethodsRead ==
    /\ ~pure_ret.done
    /\ pure_ret' = [done |-> TRUE, fn |-> "exposed_methods",
                    val |-> ExposedMethods(pure_args.mm, pure_args.allowed)]
    /\ UNCHANGED pure_args
    /\ UNCHANGED <<apis, created, flask_app, url_rule_queue, app_rules,
                   app_views, api_spec, api_doc, schema_exposer, base_path,
                   calls>>
    /\ UNCHANGED reqvars
    /\ UNCHANGED sessvars

\* schema.allowed_methods
AllowedMethodsRead ==
    /\ ~pure_ret.done
    /\ pure_ret' = [done |-> TRUE, fn |-> "allowed_methods",
                    val |-> AllowedMethods(pure_args.mm, pure_args.allowed)]
    /\ UNCHANGED pure_args
    /\ UNCHANGED <<apis, created, flask_app, url_rule_queue, app_rules,
                   app_views, api_spec, api_doc, schema_exposer, base_path,
                   calls>>
    /\ UNCHANGED reqvars
    /\ UNCHANGED sessvars

\* A request served by the transfer function made for the k-th exposed
\* method, up to the handler call fn(*args, **_params).
TransferFunctionCall(k) ==
    /\ ~pure_ret.done
    /\ k \in DOMAIN ExposedMethods(pure_args.mm, pure_args.allowed)
    /\ \E m \in {ExposedMethods(pure_args.mm, pure_args.allowed)[k]} :
       \E ta \in {TransferArgs(m.verb, m.rtype, 1, BodyNone)} :
           pure_ret' = [done |-> TRUE, fn |-> "transfer_function",
                        val |-> [verb |-> m.verb, rtype |-> m.rtype,
                                 called |-> ta.bound, args |-> ta.args,
                                 exc |-> IF ta.bound THEN "None"
                                         ELSE "UnboundLocalError"]]
    /\ UNCHANGED pure_args
    /\ UNCHANGED <<apis, created, flask_app, url_rule_queue, app_rules,
                   app_views, api_spec, api_doc, schema_exposer, base_path,
                   calls>>
    /\ UNCHANGED reqvars
    /\ UNCHANGED sessvars

NextPure ==
    \/ ExposedMethodsRead
    \/ AllowedMethodsRead
    \/ \E k \in 1..(Cardinality(MapVerbs) * Cardinality(MapRouteTypes)) :
           TransferFunctionCall(k)

SpecPure == InitPure /\ [][NextPure]_vars


-----------------------------------------------------------------------------
(* The documentation interface of API objects, called directly: one API     *)
(* object per ApiObjs entry, each with its own APISpec and document copy.   *)

\* The urls a caller writes into spec.options['servers'] inside a
\* `with api.doc_api_spec()` block.
BlockUrls == { <<"A">>, <<"/", "z">> }

\* The body of such a block: spec.options['servers'] = [{"url": url}].
BlockBody(spec, url) ==
    [spec EXCEPT !.hasServers = TRUE, !.servers = << url >>]

\* The document copy without the regeneration that closes the block.
DocApiSpecExitNoRegen(d, spec, exc) == d

\* The end of API.doc_api_spec: docs_regen() runs after the yield, so only
\* when the body did not raise.
DocApiSpecExit(d, spec, exc) ==
    IF exc THEN d ELSE DocsRegen(spec)

\* api.doc_view_fn(): the document copy, once a regeneration has defined the
\* function; before that the attribute is None and the call is a TypeError.
DocViewFn(d) ==
    [raised |-> IF d.regen THEN "None" ELSE "TypeError",
     ret |-> IF d.regen THEN << d.doc >> ELSE <<>>]

\* API objects and nothing else: no document regenerated yet.
InitDoc ==
    /\ InitExposer
    /\ db = InitDb
    /\ policy = "custom"
    /\ nreq = 0
    /\ trace = NoTrace
    /\ db_log = <<>>
    /\ pure_args = NoPureArgs
    /\ pure_ret = NoPureRet

\* api.doc_set_servers(base)
DocSetServersCall(a, base) ==
    /\ Len(calls) < MaxCalls
    /\ \E spec \in {DocSetServers(api_spec[a], a, base)} :
           /\ api_spec' = [api_spec EXCEPT ![a] = spec]
           /\ api_doc' = [api_doc EXCEPT ![a] = DocsRegen(spec)]
    /\ calls' = Append(calls, [op |-> "doc_set_servers", a |-> a, s |-> 0,
                               app |-> 0, result |-> "None"])
    /\ UNCHANGED <<apis, created, flask_app, url_rule_queue, app_rules,
                   app_views, schema_exposer, base_path>>
    /\ UNCHANGED reqvars
    /\ UNCHANGED purevars
    /\ UNCHANGED sessvars

\* api.doc_add_schema(schema); APISpec.components.schema refuses a component
\* name it already holds, before anything is changed.
DocAddSchemaCall(a, s) ==
    /\ Len(calls) < MaxCalls
    /\ IF SeqContains(api_spec[a].components, SchemaName(s))
       THEN /\ calls' = Append(calls,
                   [op |-> "doc_add_schema", a |-> a, s |-> s, app |-> 0,
                    result |-> "DuplicateComponentNameError"])
            /\ UNCHANGED <<api_spec, api_doc>>
       ELSE /\ \E spec \in {DocAddSchema(api_spec[a], s)} :
                   /\ api_spec' = [api_spec EXCEPT ![a] = spec]
                   /\ api_doc' = [api_doc EXCEPT ![a] = DocsRegen(spec)]
            /\ calls' = Append(calls,
                   [op |-> "doc_add_schema", a |-> a, s |-> s, app |-> 0,
                    result |-> "None"])
    /\ UNCHANGED <<apis, created, flask_app, url_rule_queue, app_rules,
                   app_views, schema_exposer, base_path>>
    /\ UNCHANGED reqvars
    /\ UNCHANGED purevars
    /\ UNCHANGED sessvars

\* with api.doc_api_spec() as spec: spec.options['servers'] = [{"url": url}],
\* the body then raising (exc) or not.
DocApiSpecBlock(a, url, exc) ==
    /\ Len(calls) < MaxCalls
    /\ \E spec \in {BlockBody(api_spec[a], url)} :
           /\ api_spec' = [api_spec EXCEPT ![a] = spec]
           /\ api_doc' = [api_doc EXCEPT ![a] = DocApiSpecExit(@, spec, exc)]
    /\ calls' = Append(calls, [op |-> "doc_api_spec", a |-> a, s |-> 0,
                               app |-> 0,
                               result |-> IF exc THEN "Exception" ELSE "None"])
    /\ UNCHANGED <<apis, created, flask_app, url_rule_queue, app_rules,
                   app_views, schema_exposer, base_path>>
    /\ UNCHANGED reqvars
    /\ UNCHANGED purevars
    /\ UNCHANGED sessvars

\* The API objects the documentation calls are made on.
DocApis == {1, 2}

NextDoc ==
    \/ \E a \in DocApis, base \in BasePaths : DocSetServersCall(a, base)
    \/ \E a \in DocApis, s \in SchemaObjs : DocAddSchemaCall(a, s)
    \/ \E a \in DocApis, url \in BlockUrls, exc \in BOOLEAN :
           DocApiSpecBlock(a, url, exc)

SpecDoc == InitDoc /\ [][NextDoc]_vars


-----------------------------------------------------------------------------
(* The path functions of API, each evaluated once on an API object, a base  *)
(* path and a schema.                                                       *)

\* The base_path arguments: None, '', '/', 'b' and '/b'.
BasePathArgs == BasePaths \cup {NoneStr, <<>>}

InitPath ==
    /\ InitExposer
    /\ base_path = SLASH
    /\ db = InitDb
    /\ policy = "custom"
    /\ nreq = 0
    /\ trace = NoTrace
    /\ db_log = <<>>
    /\ pure_args \in [a : ApiObjs, base : BasePathArgs, s : SchemaObjs]
    /\ pure_ret = NoPureRet

\* api.path_root_get(base)
PathRootGetRead ==
    /\ ~pure_ret.done
    /\ pure_ret' = [done |-> TRUE, fn |-> "path_root_get",
                    val |-> PathRootGet(pure_args.a, pure_args.base)]
    /\ UNCHANGED <<pure_args, api_spec, api_doc>>
    /\ UNCHANGED <<apis, created, flask_app, url_rule_queue, app_rules,
                   app_views, schema_exposer, base_path, calls>>
    /\ UNCHANGED reqvars
    /\ UNCHANGED sessvars

\* api.path_resource_get(api.path_root_get(base), schema)
PathResourceGetRead ==
    /\ ~pure_ret.done
    /\ pure_ret' = [done |-> TRUE, fn |-> "path_resource_get",
                    val |-> PathResourceGet(
                                PathRootGet(pure_args.a, pure_args.base),
                                pure_args.s)]
    /\ UNCHANGED <<pure_args, api_spec, api_doc>>
    /\ UNCHANGED <<apis, created, flask_app, url_rule_queue, app_rules,
                   app_views, schema_exposer, base_path, calls>>
    /\ UNCHANGED reqvars
    /\ UNCHANGED sessvars

\* api.path_get_docs(api.path_root_get(base))
PathGetDocsRead ==
    /\ ~pure_ret.done
    /\ pure_ret' = [done |-> TRUE, fn |-> "path_get_docs",
                    val |-> PathGetDocs(
                                PathRootGet(pure_args.a, pure_args.base))]
    /\ UNCHANGED <<pure_args, api_spec, api_doc>>
    /\ UNCHANGED <<apis, created, flask_app, url_rule_queue, app_rules,
                   app_views, schema_exposer, base_path, calls>>
    /\ UNCHANGED reqvars
    /\ UNCHANGED sessvars

\* api.doc_set_servers(base), then api.doc_view_fn()
DocSetServersRead ==
    /\ ~pure_ret.done
    /\ \E spec \in {DocSetServers(api_spec[pure_args.a], pure_args.a,
                                  pure_args.base)} :
           /\ api_spec' = [api_spec EXCEPT ![pure_args.a] = spec]
           /\ api_doc' = [api_doc EXCEPT ![pure_args.a] = DocsRegen(spec)]
           /\ pure_ret' = [done |-> TRUE, fn |-> "doc_set_servers",
                           val |-> DocViewFn(DocsRegen(spec))]
    /\ UNCHANGED pure_args
    /\ UNCHANGED <<apis, created, flask_app, url_rule_queue, app_rules,
                   app_views, schema_exposer, base_path, calls>>
    /\ UNCHANGED reqvars
    /\ UNCHANGED sessvars

NextPath ==
    \/ PathRootGetRead
    \/ PathResourceGetRead
    \/ PathGetDocsRead
    \/ DocSetServersRead

SpecPath == InitPath /\ [][NextPath]_vars


-----------------------------------------------------------------------------
(* The database session of the exposer: the getter is set, the property is  *)
(* read.                                                                    *)

\* exposer.database_session_getter(callback)
DatabaseSessionGetter(cb) ==
    /\ Len(calls) < MaxSessionOps
    /\ db_session_getter_fn' = cb
    /\ calls' = Append(calls, [op |-> "database_session_getter", a |-> 0,
                               s |-> 0, app |-> cb, result |-> "None"])
    /\ UNCHANGED getter_calls
    /\ UNCHANGED <<apis, created, flask_app, url_rule_queue, app_rules,
                   app_views, api_spec, api_doc, schema_exposer, base_path>>
    /\ UNCHANGED reqvars
    /\ UNCHANGED purevars

\* exposer.database_session
DatabaseSessionRead ==
    /\ Len(calls) < MaxSessionOps
    /\ \E r \in {DatabaseSession(db_session_getter_fn, getter_calls)} :
           /\ getter_calls' = r.ncalls
           /\ pure_ret' = [done |-> TRUE, fn |-> "database_session",
                           val |-> [raised |-> r.raised, ret |-> r.ret]]
           /\ calls' = Append(calls, [op |-> "database_session", a |-> 0,
                                      s |-> 0, app |-> 0,
                                      result |-> r.raised])
    /\ UNCHANGED <<pure_args, db_session_getter_fn>>
    /\ UNCHANGED <<apis, created, flask_app, url_rule_queue, app_rules,
                   app_views, api_spec, api_doc, schema_exposer, base_path>>
    /\ UNCHANGED reqvars

NextSession ==
    \/ \E cb \in Callbacks : DatabaseSessionGetter(cb)
    \/ DatabaseSessionRead

SpecSession == Init /\ [][NextSession]_vars


-----------------------------------------------------------------------------
(* What the claims speak of, stated apart from the operators above.         *)

Verbs == {"GET", "POST", "PUT", "DELETE"}
RouteTypes == {"general", "specific"}
SchemaNames == {SchemaName(s) : s \in SchemaObjs}

IsRegisterCall(c) == c.op = "register_schema"

\* /{base_path}/{api.name}/{api.version}, the base path taken without its
\* leading slash and dropped when nothing is left of it.
ClaimRoot(a) ==
    LET b == LStripSlash(base_path)
    IN  SLASH \o (IF Len(b) = 0 THEN <<>> ELSE b \o SLASH)
              \o ApiTable[a].name \o SLASH \o ApiTable[a].version

\* The URL rule of a resource route.
ClaimRule(a, n, rtype) ==
    ClaimRoot(a) \o SLASH \o n
        \o (IF rtype = "specific"
            THEN <<"/", "<", "s", "t", "r", "i", "n", "g", ":", "i", "d", ">">>
            ELSE <<>>)

\* The rule of the docs route.
ClaimDocsRule(a) == ClaimRoot(a) \o <<"/", "d", "o", "c", "s">>

\* The path of a route in the document.
ClaimDocPath(n, rtype) ==
    n \o (IF rtype = "specific" THEN <<"/", "{", "i", "d", "}">> ELSE <<>>)

\* The document served at API a's docs route holds an operation for the
\* schema named n under the verb.
ServedDocHasOp(a, n, verb, rtype) ==
    \E i \in DOMAIN created :
        /\ created[i].fn.kind = "docs"
        /\ created[i].verb = "GET"
        /\ created[i].rule = ClaimDocsRule(a)
        /\ LET doc == api_doc[created[i].fn.api].doc
           IN  /\ DictHas(doc.paths, ClaimDocPath(n, rtype))
               /\ DictHas(DictGet(doc.paths, ClaimDocPath(n, rtype)),
                          ToLower(verb))

\* The exposer has created a URL rule for the schema named n, the verb and
\* the route type under API a.
RuleCreated(a, n, verb, rtype) ==
    \E i \in DOMAIN created :
        /\ created[i].fn.kind = "transfer"
        /\ SchemaName(created[i].fn.schema) = n
        /\ created[i].fn.rtype = rtype
        /\ created[i].verb = verb
        /\ created[i].rule = ClaimRule(a, n, rtype)

\* Call i registers a schema name that an earlier call entered under the
\* same API.
RegisteredBefore(i) ==
    \E j \in 1..(i - 1) :
        /\ IsRegisterCall(calls[j])
        /\ calls[j].a = calls[i].a
        /\ SchemaName(calls[j].s) = SchemaName(calls[i].s)
        /\ calls[j].result # "ValueError"

\* C1: after any sequence of register_schema calls, the document served at
\* an API's docs route holds an operation for a schema and verb exactly when
\* the exposer has created the URL rule of that schema, verb and route type
\* under that API.
C1_DocInSyncWithRules ==
    \A a \in ApiObjs, n \in SchemaNames, verb \in Verbs, rtype \in RouteTypes :
        ServedDocHasOp(a, n, verb, rtype) <=> RuleCreated(a, n, verb, rtype)

\* C7: register_schema raises ValueError when the schema name is already
\* registered against that API, and succeeds when the name is new for that
\* API.
C7_RaisesExactlyOnDuplicate ==
    \A i \in DOMAIN calls :
        IsRegisterCall(calls[i]) =>
            calls[i].result = (IF RegisteredBefore(i) THEN "ValueError"
                               ELSE "None")


LastCall == calls[Len(calls)]

\* The (rule, verb) pairs a successful registration of schema s under API a
\* is to create, one per exposed method.
ClaimRoutesOf(a, s) ==
    LET em == SchemaExposedMethods(s)
    IN  [i \in DOMAIN em |->
            [rule |-> ClaimRule(a, SchemaName(s), em[i].rtype),
             verb |-> em[i].verb]]

RuleAndVerb(routes) ==
    [i \in DOMAIN routes |-> [rule |-> routes[i].rule, verb |-> routes[i].verb]]

IsResourceRoute(r) == r.fn.kind = "transfer"

\* C2: a successful register_schema(api, schema) creates exactly one URL rule
\* per entry of schema.exposed_methods and no other resource rule, each with
\* the rule /{base_path}/{api.name}/{api.version}/{schema.name} (followed by
\* /<string:id> for a specific route) and the entry's verb; the new rules go
\* to the Flask app when one is bound and to the deferred queue otherwise.
C2_OneRulePerExposedMethod ==
    [][ (/\ Len(calls') = Len(calls) + 1
         /\ IsRegisterCall(calls'[Len(calls')])
         /\ calls'[Len(calls')].result = "None")
        => LET c == calls'[Len(calls')]
               new == SubSeq(created', Len(created) + 1, Len(created'))
               placed == IF flask_app = 0
                         THEN SubSeq(url_rule_queue', Len(url_rule_queue) + 1,
                                     Len(url_rule_queue'))
                         ELSE SubSeq(app_rules'[flask_app],
                                     Len(app_rules[flask_app]) + 1,
                                     Len(app_rules'[flask_app]))
           IN  /\ RuleAndVerb(SelectSeq(new, IsResourceRoute))
                    = ClaimRoutesOf(c.a, c.s)
               /\ placed = new ]_vars

\* A schema with general and specific routes has been registered with
\* success under an exposer bound to a Flask app and with a base path.
C2_Witness ==
    /\ Len(calls) > 0
    /\ IsRegisterCall(LastCall)
    /\ LastCall.result = "None"
    /\ LastCall.s = 1
    /\ flask_app # 0
    /\ base_path = <<"b">>
    /\ \E i \in DOMAIN created : created[i].rule = ClaimRule(LastCall.a, <<"r">>, "specific")

\* The last request went to a resource route and its transfer function
\* reached the handler call.
HandlerCalled == nreq > 0 /\ trace.fn.kind = "transfer" /\ trace.run.called

\* The positional arguments the claim fixes per verb and route type.
ClaimArgs(verb, rtype, id, data) ==
    CASE verb = "GET" /\ rtype = "general" -> <<>>
      [] verb = "GET" /\ rtype = "specific" -> <<ArgId(id)>>
      [] verb = "POST" /\ rtype = "general" -> <<ArgData(data)>>
      [] verb = "PUT" /\ rtype = "specific" -> <<ArgId(id), ArgData(data)>>
      [] verb = "DELETE" /\ rtype = "specific" -> <<ArgId(id)>>

\* The schema function the method map names for the route of the last
\* request.
ClaimFunction == MethodGet(trace.fn.schema, trace.fn.verb, trace.fn.rtype).function

\* C3: the transfer function of an exposed method calls the schema function
\* named in the method map with the positional arguments GET general: none,
\* GET specific: (id), POST general: (data), PUT specific: (id, data),
\* DELETE specific: (id), and what that function returns is the payload of
\* the response.
C3_TransferCallsHandler ==
    HandlerCalled =>
        LET args == ClaimArgs(trace.fn.verb, trace.fn.rtype, trace.id, trace.data)
            h == CallHandler(trace.before, ClaimFunction, args,
                             trace.run.kwargs, trace.answer)
        IN  /\ trace.run.function = ClaimFunction
            /\ trace.run.args = args
            /\ h.exc = NoExc => trace.resp = JsonResponse(h.result, 200)

\* A PUT to a specific route reached put(id, data) and the updated record is
\* the payload; a list request reached list() with no positional argument.
C3_Witness ==
    /\ HandlerCalled
    /\ trace.fn.verb = "PUT"
    /\ trace.run.args = <<ArgId(trace.id), ArgData(trace.data)>>
    /\ trace.run.exc = NoExc
    /\ trace.resp.body.t = "rec"
    /\ trace.resp.body.w = "1"
    /\ trace.before.records[trace.id].w = "0"

ParamNames == {"filter", "handshake", "token"}

\* The keys of 'params' of the method map entry of the last request's route.
ClaimParams ==
    LET md == MethodGet(trace.fn.schema, trace.fn.verb, trace.fn.rtype)
    IN  IF md.hasParams THEN md.params ELSE <<>>

\* C4: a request parameter reaches the handler as a keyword argument, with
\* its value, if and only if its name is a key of 'params' of the route's
\* method map entry; every other parameter is dropped and the handler is
\* still called.
C4_ParamsForwardedIffDeclared ==
    (nreq > 0 /\ trace.fn.kind = "transfer" /\ AllJson(trace.raw)) =>
        /\ trace.run.called
        /\ \A n \in ParamNames :
              DictHas(trace.run.kwargs, n)
                  <=> (DictHas(trace.raw, n) /\ SeqContains(ClaimParams, n))
        /\ \A n \in ParamNames :
              DictHas(trace.run.kwargs, n) =>
                  DictGet(trace.run.kwargs, n) = DictGet(trace.raw, n).val

\* A list request carried 'filter' and 'handshake': the filter reached
\* list() and the handshake did not, with no error.
C4_Witness ==
    /\ HandlerCalled
    /\ trace.fn.function = "list"
    /\ DictHas(trace.raw, "filter")
    /\ DictHas(trace.raw, "handshake")
    /\ DictKeys(trace.run.kwargs) = {"filter"}
    /\ trace.run.exc = NoExc
    /\ trace.resp.body = PIds(<<2>>)

\* The validator a handler is to consult, and the id it is to pass (0 is
\* None).
ClaimValidator(function) ==
    IF function \in {"get", "list"} THEN "read" ELSE "write"

ClaimValidatorId(function, id) ==
    IF function \in {"get", "put", "delete"} THEN id ELSE 0

\* C5: get(id) and list() consult validate_can_read with the id and with
\* None, post, put and delete consult validate_can_write with None, the id
\* and the id; when the validator returns False the call raises
\* RESTException 403, the underlying _action is not invoked and no record
\* is touched.
C5_ValidatorGuardsAction ==
    HandlerCalled =>
        /\ trace.run.validator = ClaimValidator(trace.fn.function)
        /\ trace.run.vid = ClaimValidatorId(trace.fn.function, trace.id)
        /\ ~ValidatorReturn(ClaimValidator(trace.fn.function), trace.answer) =>
              /\ trace.run.exc.kind = "RESTException"
              /\ trace.run.exc.code = 403
              /\ trace.run.action = "none"
              /\ db = trace.before
              /\ trace.resp.status = 403

\* A DELETE of an existing record was refused by validate_can_write.
C5_Witness ==
    /\ HandlerCalled
    /\ policy = "custom"
    /\ ~trace.answer
    /\ trace.fn.function = "delete"
    /\ RecordExists(trace.before, trace.id)
    /\ RecordExists(db, trace.id)
    /\ trace.resp.status = 403

\* C6: with the validators of SchemaREST left as they are, every get and
\* list that reaches the schema is permitted and every post, put and delete
\* ends in 403, and after any sequence of requests the stored records are
\* the ones the session started with.
C6_DefaultIsReadOnly ==
    policy = "default" =>
        /\ db = InitDb
        /\ HandlerCalled =>
              IF trace.fn.verb = "GET"
              THEN trace.run.allowed /\ trace.resp.status # 403
              ELSE trace.resp.status = 403 /\ trace.run.action = "none"

\* Under the default validators a well-formed POST was answered with 403
\* after an earlier request, and a GET of a record was served.
C6_Witness ==
    /\ policy = "default"
    /\ nreq = MaxReqs
    /\ HandlerCalled
    /\ trace.fn.function = "post"
    /\ ~HasValidationErrors(trace.data)
    /\ trace.resp.status = 403

\* C8: a RESTException(http_code, message) raised while the wrapped
\* transfer function runs is answered with the JSON object
\* {'error': message} and status http_code; when nothing is raised the
\* answer is the JSON encoding of the handler's result with status 200.
C8_ResponseOfWrapped ==
    nreq > 0 =>
        /\ trace.run.exc.kind = "RESTException" =>
              trace.resp = [kind |-> "json", status |-> trace.run.exc.code,
                            body |-> PErr(trace.run.exc.msg)]
        /\ trace.run.exc.kind = "None" =>
              trace.resp = [kind |-> "json", status |-> 200,
                            body |-> trace.run.result]

\* A GET of a missing record raised RESTException 404 and was answered with
\* the error object and status 404.
C8_Witness ==
    /\ HandlerCalled
    /\ trace.fn.function = "get"
    /\ ~RecordExists(trace.before, trace.id)
    /\ trace.run.exc = NotFound
    /\ trace.resp.status = 404
    /\ trace.resp.body.t = "error"

\* The body of the last request names a dump-only field.
NamesDumpOnly(data) == ~data.isNone /\ DictHas(data.items, "ro")

\* C9: a body that fails the schema's validation, in load or in validate,
\* surfaces as RESTException 400 and is answered with status 400, never as
\* another exception; a PUT that names a dump-only field and reaches
\* validation (the writer is permitted, the record exists) is such a case.
C9_ValidationFailureIs400 ==
    HandlerCalled =>
        /\ (/\ trace.run.action \in {"_create", "_update"}
            /\ trace.run.action = "_update" => RecordExists(trace.before, trace.id)
            /\ \/ trace.data.isNone
               \/ \E i \in DOMAIN trace.data.items :
                     \/ trace.data.items[i].k # "w"
                     \/ trace.data.items[i].v \notin IntVals)
           => /\ trace.run.exc = RESTException(400, "validation_failed")
              /\ trace.resp.status = 400
              /\ db = trace.before
        /\ (/\ trace.fn.function = "put"
            /\ NamesDumpOnly(trace.data)
            /\ trace.run.allowed
            /\ RecordExists(trace.before, trace.id))
           => trace.resp.status = 400

\* A permitted PUT to an existing record named the dump-only field and was
\* answered with 400, the record unchanged.
C9_Witness ==
    /\ HandlerCalled
    /\ trace.fn.function = "put"
    /\ NamesDumpOnly(trace.data)
    /\ trace.run.allowed
    /\ RecordExists(trace.before, trace.id)
    /\ trace.run.validated = "failed"
    /\ trace.resp.status = 400
    /\ db = trace.before

\* The (verb, route type) entries of a method map, flattened in map order.
RECURSIVE ClaimEntries(_)
ClaimEntries(mm) ==
    IF Len(mm) = 0 THEN <<>>
    ELSE [j \in DOMAIN Head(mm).types |->
             [verb |-> Head(mm).verb, rtype |-> Head(mm).types[j].rtype,
              md |-> Head(mm).types[j].md]]
         \o ClaimEntries(Tail(mm))

ClaimEntryAllowed(e) == SeqContains(pure_args.allowed, e.verb)

\* C10: exposed_methods lists (http_verb, route_type, function_name,
\* allowed_params) for exactly the (verb, route type) entries of
\* _method_map_ whose verb is in _allowed_methods_, in method-map order,
\* allowed_params being empty when the entry has no 'params'; with an empty
\* _allowed_methods_ the list is empty.
C10_ExposedMethods ==
    (pure_ret.done /\ pure_ret.fn = "exposed_methods") =>
        LET kept == SelectSeq(ClaimEntries(pure_args.mm), ClaimEntryAllowed)
        IN  /\ Len(pure_ret.val) = Len(kept)
            /\ \A i \in DOMAIN kept :
                  /\ pure_ret.val[i].verb = kept[i].verb
                  /\ pure_ret.val[i].rtype = kept[i].rtype
                  /\ pure_ret.val[i].function = kept[i].md.function
                  /\ pure_ret.val[i].params =
                        (IF kept[i].md.hasParams THEN kept[i].md.params
                         ELSE <<>>)
            /\ pure_args.allowed = <<>> => pure_ret.val = <<>>

\* exposed_methods was read on a map with GET and POST entries where only
\* POST is allowed: the GET entries are absent, the POST ones listed.
C10_Witness ==
    /\ pure_ret.done
    /\ pure_ret.fn = "exposed_methods"
    /\ Len(pure_args.mm) = 2
    /\ pure_args.mm[1].verb = "GET"
    /\ Len(pure_args.mm[1].types) = 2
    /\ Len(pure_args.mm[2].types) = 2
    /\ pure_args.allowed = <<"POST">>
    /\ Len(pure_ret.val) = 2
    /\ pure_ret.val[1].verb = "POST"
    /\ pure_ret.val[1].params = <<>>
    /\ pure_ret.val[2].params = <<"filter">>

\* The serialized data of a record: its id and the fields the schema dumps,
\* the excluded field not among them.
ClaimSerialized(id, rec) ==
    [t |-> "rec", id |-> id, w |-> rec.w, ro |-> rec.ro, ids |-> <<>>,
     msg |-> ""]

\* The last request reached the _action named.
ActionRan(action) == HandlerCalled /\ trace.run.action = action

\* C11: _get(id) returns the serialized data of the record with that id
\* when the session has one and raises RESTException 404 otherwise; the
\* stored records are the same after as before.
C11_GetReturnsRecordOr404 ==
    ActionRan("_get") =>
        /\ db = trace.before
        /\ IF trace.id \in DOMAIN trace.before.records
           THEN /\ trace.run.exc = NoExc
                /\ trace.run.result =
                      ClaimSerialized(trace.id, trace.before.records[trace.id])
           ELSE /\ trace.run.exc.kind = "RESTException"
                /\ trace.run.exc.code = 404
                /\ trace.run.result = PNone

\* A GET returned the record that an earlier POST had created.
C11_Witness ==
    /\ ActionRan("_get")
    /\ trace.id \notin DOMAIN InitRecords
    /\ trace.run.exc = NoExc
    /\ trace.run.result.t = "rec"
    /\ trace.run.result.id = trace.id
    /\ trace.resp.status = 200

\* The attributes of a record.
ClaimAttrs == {"w", "ro", "io", "sc"}

\* A body the schema accepts: an object naming loadable fields only, with
\* values of the field's type.
ClaimValidData(data) ==
    /\ ~data.isNone
    /\ \A i \in DOMAIN data.items :
          data.items[i].k = "w" /\ data.items[i].v \in {"0", "1"}

\* C12: _update(id, data) on an existing record with valid data sets the
\* attributes named in data to the given values and no other attribute,
\* leaves every other record as it was, commits, and returns the serialized
\* record after the update.
C12_UpdateSetsNamedAttributes ==
    (/\ ActionRan("_update")
     /\ trace.id \in DOMAIN trace.before.records
     /\ ClaimValidData(trace.data)) =>
        /\ trace.run.exc = NoExc
        /\ DOMAIN db.records = DOMAIN trace.before.records
        /\ \A j \in DOMAIN db.records :
              j # trace.id => db.records[j] = trace.before.records[j]
        /\ \A f \in ClaimAttrs :
              db.records[trace.id][f] =
                  (IF DictHas(trace.data.items, f)
                   THEN DictGet(trace.data.items, f)
                   ELSE trace.before.records[trace.id][f])
        /\ db.committed = db.records
        /\ db.next_id = trace.before.next_id
        /\ trace.run.result = ClaimSerialized(trace.id, db.records[trace.id])

\* A PUT changed the width of a record from "0" to "1" and committed, a
\* record flushed by an earlier POST along with it.
C12_Witness ==
    /\ ActionRan("_update")
    /\ trace.run.exc = NoExc
    /\ trace.before.records[trace.id].w = "0"
    /\ db.records[trace.id].w = "1"
    /\ trace.before.committed # trace.before.records
    /\ db.committed = db.records
    /\ trace.run.result.w = "1"

\* What _delete does in the step of the last request: 404 and no change for
\* a missing id, else that record removed, the others kept, and a commit.
ClaimDeleteStep ==
    ActionRan("_delete") =>
        IF trace.id \notin DOMAIN trace.before.records
        THEN /\ trace.run.exc.kind = "RESTException"
             /\ trace.run.exc.code = 404
             /\ db = trace.before
        ELSE /\ trace.run.exc = NoExc
             /\ DOMAIN db.records = DOMAIN trace.before.records \ {trace.id}
             /\ \A j \in DOMAIN db.records :
                   db.records[j] = trace.before.records[j]
             /\ db.committed = db.records

\* A get, a put and a delete of id, made now, all yield 404.
ClaimAll404(id) ==
    /\ ActGet(db, id).exc.code = 404
    /\ \A data \in BodiesWrite : ActUpdate(db, id, data).exc.code = 404
    /\ ActDelete(db, id).exc.code = 404

\* The ids _delete has removed, and those of them that no insert has been
\* given since.
ClaimDeletedIds == {db_log[k].id : k \in {j \in DOMAIN db_log : db_log[j].op = "delete"}}

ClaimStillDeleted ==
    {db_log[k].id : k \in {j \in DOMAIN db_log :
        /\ db_log[j].op = "delete"
        /\ \A l \in DOMAIN db_log : l > j => db_log[l].id # db_log[j].id}}

\* C13 as stated: _delete(id) raises 404 and changes nothing for a missing
\* id, else removes exactly that record and commits, and every later get,
\* put or delete of an id once deleted yields 404.
C13_DeletedIdAlways404 ==
    /\ ClaimDeleteStep
    /\ \A id \in ClaimDeletedIds : ClaimAll404(id)

\* C13, amended: as above, but a later get, put or delete of a deleted id
\* yields 404 only for as long as no record has been created with that id.
C13_DeletedId404UntilReused ==
    /\ ClaimDeleteStep
    /\ \A id \in ClaimStillDeleted : ClaimAll404(id)
    /\ (/\ HandlerCalled
        /\ trace.run.action \in {"_get", "_update", "_delete"}
        /\ trace.run.exc # NoExc \/ trace.run.action # "_delete"
        /\ trace.id \in ClaimStillDeleted)
       => trace.resp.status = 404

\* Record 2 was deleted and a GET of id 2 after that was answered with 404.
C13_Witness ==
    /\ db_log = << [op |-> "delete", id |-> 2] >>
    /\ nreq = 2
    /\ ActionRan("_get")
    /\ trace.id = 2
    /\ trace.resp.status = 404
    /\ DOMAIN db.records = {1}
    /\ db.committed = db.records

\* The filter the last list request handed to _list: its items, or <<>>
\* when it is None.
ClaimFilterItems ==
    IF DictHas(trace.run.kwargs, "filter")
    THEN DictGet(trace.run.kwargs, "filter").items
    ELSE <<>>

ClaimFilterIsDictOrNone ==
    DictHas(trace.run.kwargs, "filter") =>
        DictGet(trace.run.kwargs, "filter").t = "dict"

\* The column a filter key stands for: the key itself unless
\* _field_db_remap_ = {'sec': 'sc'} translates it.
ClaimColumn(k) == IF k = "sec" THEN "sc" ELSE k

ClaimColumns == {"w", "ro", "io", "sc"}

\* The fields excluded from the schema.
ClaimExcluded == {"io", "sec"}

\* The ids of the records that match every item of a filter.
ClaimMatching(recs, items) ==
    {i \in DOMAIN recs :
        \A j \in DOMAIN items : recs[i][ClaimColumn(items[j].k)] = items[j].v}

ClaimIdSet(ids) == {ids[i] : i \in DOMAIN ids}

C15_ExcludedFieldNeverFilters ==
    (/\ ActionRan("_list")
     /\ ClaimFilterIsDictOrNone
     /\ \E j \in DOMAIN ClaimFilterItems :
           ClaimFilterItems[j].k \in ClaimExcluded) =>
        /\ trace.run.exc.kind = "RESTException"
        /\ trace.run.exc.code = 401
        /\ trace.run.result.t # "ids"
        /\ trace.resp.status = 401

\* C16: while no Flask app is bound every created route is held back; the
\* init_app(app) that binds the app adds every route created so far to app,
\* in the order of creation; a route created once an app is bound is added
\* to that app in the step that creates it.
C16_LazyBinding ==
    [][ /\ flask_app' = 0 =>
              /\ url_rule_queue' = created'
              /\ \A p \in Apps : app_rules'[p] = <<>>
        /\ (flask_app = 0 /\ flask_app' # 0) =>
              app_rules'[flask_app'] = created
        /\ (flask_app # 0 /\ IsRegisterCall(calls'[Len(calls')])) =>
              app_rules'[flask_app] =
                  app_rules[flask_app]
                      \o SubSeq(created', Len(created) + 1, Len(created')) ]_vars

\* The response of the docs route of API a holds the component and every
\* operation of schema s, and is the latest document of a.
ClaimDocsRouteServes(a, s) ==
    \E j \in DOMAIN created :
        /\ created[j].fn.kind = "docs"
        /\ created[j].verb = "GET"
        /\ created[j].rule = ClaimDocsRule(a)
        /\ LET doc == api_doc[created[j].fn.api].doc
               em == SchemaExposedMethods(s)
           IN  /\ doc = SpecToDict(api_spec[a])
               /\ SeqContains(doc.components, SchemaName(s))
               /\ \A k \in DOMAIN em :
                     /\ DictHas(doc.paths, ClaimDocPath(SchemaName(s), em[k].rtype))
                     /\ DictHas(DictGet(doc.paths,
                                        ClaimDocPath(SchemaName(s), em[k].rtype)),
                                ToLower(em[k].verb))

\* C17: an API registered with the exposer has the docs route GET
\* /{base_path}/{api.name}/{api.version}/docs, and that route serves the
\* API's latest regenerated document: the component and the paths of every
\* schema registered under the API are in its response.
C17_DocsRouteServesLatest ==
    \A i \in DOMAIN calls :
        (IsRegisterCall(calls[i]) /\ calls[i].result = "None") =>
            ClaimDocsRouteServes(calls[i].a, calls[i].s)

\* The operations of API that are to end with a regeneration.
ClaimDocOps == {"doc_set_servers", "doc_add_schema", "doc_api_spec"}

\* The document a regeneration of the given spec yields.
ClaimDocument(spec) ==
    [paths |-> spec.paths,
     hasComponents |-> spec.components # <<>>,
     components |-> spec.components,
     hasServers |-> spec.hasServers,
     servers |-> spec.servers]

\* C18: after every doc_set_servers, doc_add_schema and `with
\* api.doc_api_spec()` block that ends normally, doc_view_fn() returns the
\* content of the spec as it is then, so a change made inside the block is
\* visible as soon as the block closes; a call that raises leaves what
\* doc_view_fn() returns as it was.
C18_ViewIsLatestRegeneration ==
    [][ \A a \in ApiObjs :
          LET c == calls'[Len(calls')]
          IN  (Len(calls') = Len(calls) + 1 /\ c.op \in ClaimDocOps /\ c.a = a) =>
                 IF c.result = "None"
                 THEN DocViewFn(api_doc'[a]) =
                          [raised |-> "None",
                           ret |-> << ClaimDocument(api_spec'[a]) >>]
                 ELSE DocViewFn(api_doc'[a]) = DocViewFn(api_doc[a]) ]_vars

\* A block that ended normally changed the servers of a document that had
\* been regenerated before, and the change is served.
C18_Witness ==
    /\ calls # <<>>
    /\ LastCall.op = "doc_api_spec"
    /\ LastCall.result = "None"
    /\ Len(calls) >= 2
    /\ calls[Len(calls) - 1].op = "doc_set_servers"
    /\ calls[Len(calls) - 1].a = LastCall.a
    /\ DocViewFn(api_doc[LastCall.a]).raised = "None"
    /\ DocViewFn(api_doc[LastCall.a]).ret[1].servers \in {<< u >> : u \in BlockUrls}

\* The method map entries of schema s whose verb is in its allowed list.
ClaimExposedEntries(s) ==
    LET es == ClaimEntries(MethodMapOf(s))
    IN  {es[i] : i \in {j \in DOMAIN es :
                            SeqContains(SchemaTable[s].allowed, es[j].verb)}}

ClaimLower(verb) ==
    CASE verb = "GET" -> "get" [] verb = "POST" -> "post"
      [] verb = "PUT" -> "put" [] verb = "DELETE" -> "delete"

\* The parameters of an operation: the path parameter 'id' iff the route is
\* specific, then one query parameter per allowed param.
ClaimParameters(e) ==
    LET names == IF e.md.hasParams THEN e.md.params ELSE <<>>
        path == IF e.rtype = "specific" THEN 1 ELSE 0
    IN  [i \in 1..(path + Len(names)) |->
            IF i <= path THEN [name |-> "id", in |-> "path"]
            ELSE [name |-> names[i - path], in |-> "query"]]

\* One response entry per configured status code.
ClaimResponsesOk(n, e, responses) ==
    /\ Len(responses) = Len(e.md.responses)
    /\ \A i \in DOMAIN responses :
          LET conf == e.md.responses[i][2]
          IN  /\ responses[i].code = e.md.responses[i][1]
              /\ conf = "None" =>
                    /\ responses[i].kind = "description"
                    /\ responses[i].schema = <<>>
              /\ conf = "_schema_" =>
                    /\ responses[i].kind = "content"
                    /\ responses[i].schema = n
              /\ conf \notin {"None", "_schema_"} =>
                    /\ responses[i].kind = "content"
                    /\ responses[i].schema = << conf >>

\* The document of API a holds schema s as doc_add_schema is to leave it, the
\* request body of an entry being present exactly when HasBody(entry).
ClaimSchemaDocumented(a, s, HasBody(_)) ==
    LET doc == DocViewFn(api_doc[a]).ret[1]
        n == SchemaName(s)
    IN  /\ SeqContains(doc.components, n)
        /\ \A rtype \in RouteTypes :
              LET es == {e \in ClaimExposedEntries(s) : e.rtype = rtype}
                  p == ClaimDocPath(n, rtype)
              IN  /\ DictHas(doc.paths, p) <=> es # {}
                  /\ es # {} =>
                        /\ DictKeys(DictGet(doc.paths, p))
                              = {ClaimLower(e.verb) : e \in es}
                        /\ \A e \in es :
                              LET op == DictGet(DictGet(doc.paths, p),
                                                ClaimLower(e.verb))
                              IN  /\ op.parameters = ClaimParameters(e)
                                  /\ ClaimResponsesOk(n, e, op.responses)
                                  /\ op.requestBody.present <=> HasBody(e)

ClaimHasDataKey(e) == e.md.hasData

ClaimHasData(e) == e.md.hasData /\ e.md.data # "None"

ClaimDocAdded(c) == c.op = "doc_add_schema" /\ c.result = "None"

\* C19 as stated: after doc_add_schema(schema) the document holds the
\* component, and per exposed method one operation with its parameters and
\* responses and with a requestBody iff the method map entry has a 'data'
\* key.
C19_BodyIffDataKey ==
    \A i \in DOMAIN calls :
        ClaimDocAdded(calls[i]) =>
            ClaimSchemaDocumented(calls[i].a, calls[i].s, ClaimHasDataKey)

\* C19, amended: as above, with a requestBody iff the method map entry has a
\* 'data' key whose value is not None.
C19_BodyIffDataNotNone ==
    \A i \in DOMAIN calls :
        ClaimDocAdded(calls[i]) =>
            ClaimSchemaDocumented(calls[i].a, calls[i].s, ClaimHasData)

\* A schema with a None 'data' entry and a literal 'data' entry was added:
\* the first operation has no requestBody, the second has one.
C19_Witness ==
    /\ calls # <<>>
    /\ ClaimDocAdded(LastCall)
    /\ \E e, f \in ClaimExposedEntries(LastCall.s) :
          /\ e.md.hasData /\ e.md.data = "None"
          /\ f.md.hasData /\ f.md.data \notin {"None", "_schema_"}
          /\ LET doc == DocViewFn(api_doc[LastCall.a]).ret[1]
                 n == SchemaName(LastCall.s)
                 ope == DictGet(DictGet(doc.paths, ClaimDocPath(n, e.rtype)),
                                ClaimLower(e.verb))
                 opf == DictGet(DictGet(doc.paths, ClaimDocPath(n, f.rtype)),
                                ClaimLower(f.verb))
             IN  /\ ~ope.requestBody.present
                 /\ opf.requestBody.present
                 /\ Len(opf.parameters) = 2

\* C20: every created route has an endpoint name of its own: two routes,
\* which differ in API, schema, HTTP verb or route type or are a docs and a
\* resource route, never have the same endpoint.
C20_EndpointsUnique ==
    \A i, j \in DOMAIN created :
        i # j => created[i].endpoint # created[j].endpoint

\* C23: reading allowed_methods raises ValueError when _allowed_methods_
\* holds a verb that is not a key of _method_map_, and otherwise returns
\* _allowed_methods_ unchanged.
C23_AllowedMethods ==
    (pure_ret.done /\ pure_ret.fn = "allowed_methods") =>
        LET keys == {e.verb : e \in {pure_args.mm[k] : k \in DOMAIN pure_args.mm}}
            verbs == {pure_args.allowed[i] : i \in DOMAIN pure_args.allowed}
        IN  IF verbs \subseteq keys
            THEN /\ pure_ret.val.raised = "None"
                 /\ pure_ret.val.ret = pure_args.allowed
            ELSE pure_ret.val.raised = "ValueError"

\* Read with a valid verb followed by one that is not in the map.
C23_Witness ==
    /\ pure_ret.done
    /\ pure_ret.fn = "allowed_methods"
    /\ Len(pure_args.mm) = 1
    /\ pure_args.mm[1].verb = "GET"
    /\ pure_args.allowed = <<"GET", "PUT">>
    /\ pure_ret.val.raised = "ValueError"

\* /{base_path}/{name}/{version}: the base path without its leading slash,
\* and left out when it is None or nothing is left of it.
ClaimRootOf(a, base) ==
    LET b == IF base = NoneStr THEN <<>>
             ELSE IF Len(base) > 0 /\ base[1] = "/" THEN Tail(base)
             ELSE base
    IN  <<"/">> \o (IF b = <<>> THEN <<>> ELSE b \o <<"/">>)
              \o ApiTable[a].name \o <<"/">> \o ApiTable[a].version

\* C21: path_root_get(base_path) is /{base_path}/{name}/{version}, the same
\* with and without a leading slash on base_path, and /{name}/{version} for
\* None and '/'; path_resource_get and path_get_docs append /{schema.name}
\* and /docs to that root; doc_set_servers(base_path) leaves the document
\* with the single server whose url is that root.
C21_Paths ==
    pure_ret.done =>
        LET root == ClaimRootOf(pure_args.a, pure_args.base)
        IN  /\ pure_ret.fn = "path_root_get" => pure_ret.val = root
            /\ pure_ret.fn = "path_resource_get" =>
                  pure_ret.val = root \o <<"/">> \o SchemaName(pure_args.s)
            /\ pure_ret.fn = "path_get_docs" =>
                  pure_ret.val = root \o <<"/", "d", "o", "c", "s">>
            /\ pure_ret.fn = "doc_set_servers" =>
                  /\ pure_ret.val.raised = "None"
                  /\ pure_ret.val.ret[1].hasServers
                  /\ pure_ret.val.ret[1].servers = << root >>

\* The servers block was set from a base path with a leading slash.
C21_Witness ==
    /\ pure_ret.done
    /\ pure_ret.fn = "doc_set_servers"
    /\ pure_args.base = <<"/", "b">>
    /\ pure_args.a = 2
    /\ pure_ret.val.ret[1].servers =
          << <<"/", "b", "/", "a", "/", "v", "_", "c">> >>

\* The positions in calls at which a session getter was set.
ClaimGetterSets(log) ==
    {i \in DOMAIN log : log[i].op = "database_session_getter"}

\* The callback set most recently, 0 when none was ever set.
ClaimGetter(log) ==
    IF ClaimGetterSets(log) = {} THEN 0
    ELSE log[CHOOSE i \in ClaimGetterSets(log) :
                 \A j \in ClaimGetterSets(log) : j <= i].app

\* C22: database_session raises ValueError while no session getter has been
\* set; once one is set, every access calls the most recently set callback
\* anew and returns the result of that call, never an earlier session.
C22_SessionFromGetterEachTime ==
    [][ (Len(calls') = Len(calls) + 1
         /\ calls'[Len(calls')].op = "database_session") =>
           LET g == ClaimGetter(calls)
           IN  IF g = 0
               THEN /\ pure_ret'.val.raised = "ValueError"
                    /\ getter_calls' = getter_calls
               ELSE /\ pure_ret'.val.raised = "None"
                    /\ getter_calls' =
                          [getter_calls EXCEPT ![g] = getter_calls[g] + 1]
                    /\ pure_ret'.val.ret =
                          << [cb |-> g, n |-> getter_calls'[g]] >> ]_vars

\* The property was read twice after the getter had been replaced: the
\* second read is the second call of the new callback.
C22_Witness ==
    /\ Len(calls) = 4
    /\ calls[1].op = "database_session_getter" /\ calls[1].app = 1
    /\ calls[2].op = "database_session_getter" /\ calls[2].app = 2
    /\ calls[3].op = "database_session"
    /\ calls[4].op = "database_session"
    /\ pure_ret.fn = "database_session"
    /\ pure_ret.val.ret = << [cb |-> 2, n |-> 2] >>
    /\ getter_calls[1] = 0

\* C24: a register_schema call that raises leaves everything as it was
\* before the call: the registry of APIs and schemas, the created routes,
\* the API documents and the schemas' exposer back-references.
C24_RaisingRegisterChangesNothing ==
    [][ (/\ Len(calls') = Len(calls) + 1
         /\ IsRegisterCall(calls'[Len(calls')])
         /\ calls'[Len(calls')].result # "None") =>
            /\ apis' = apis
            /\ created' = created
            /\ api_spec' = api_spec
            /\ api_doc' = api_doc
            /\ schema_exposer' = schema_exposer ]_vars

\* The Flask app holds a URL rule for the created route r.
ClaimAppHolds(app, r) ==
    \E j \in DOMAIN app_rules[app] :
        /\ app_rules[app][j].rule = r.rule
        /\ app_rules[app][j].endpoint = r.endpoint
        /\ app_rules[app][j].verb = r.verb

\* C25: after any interleaving of register_schema and init_app calls, on a
\* second Flask app too, the most recently initialised Flask app holds a URL
\* rule for every route the exposer has created so far.
C25_LatestAppHoldsEveryRoute ==
    flask_app # 0 =>
        \A i \in DOMAIN created : ClaimAppHolds(flask_app, created[i])

\* C26: no route (rule, endpoint, verb) is added to the same Flask app more
\* than once, whatever the number and order of init_app and register_schema
\* calls.
C26_NoRouteAddedTwice ==
    \A app \in Apps :
        \A i, j \in DOMAIN app_rules[app] :
            (/\ app_rules[app][i].rule = app_rules[app][j].rule
             /\ app_rules[app][i].endpoint = app_rules[app][j].endpoint
             /\ app_rules[app][i].verb = app_rules[app][j].verb) => i = j

\* The session as it is, and as it would be with and without a record of
\* the given id.
ClaimSessions(d, id) ==
    { d,
      [d EXCEPT !.records = [i \in DOMAIN d.records \ {id} |-> d.records[i]]],
      [d EXCEPT !.records = [i \in DOMAIN d.records \cup {id} |->
                                IF i \in DOMAIN d.records THEN d.records[i]
                                ELSE InitRecords[1]]] }

\* C27: a request the validator denies gets the same 403 response whether
\* or not the addressed record exists, no lookup having been made; a 404
\* and the data of a record are only returned to an accessor the validator
\* permitted.
C27_DenialIndependentOfRecord ==
    HandlerCalled =>
        /\ ~trace.run.allowed =>
              /\ trace.resp.status = 403
              /\ trace.resp.body.t = "error"
              /\ trace.run.action = "none"
              /\ \A d2 \in ClaimSessions(trace.before, trace.id) :
                    Wrapped(trace.fn, d2, trace.id, trace.data, trace.raw,
                            trace.answer).resp = trace.resp
        /\ (trace.resp.status = 404 \/ trace.resp.body.t = "rec") =>
              trace.run.allowed

\* A GET of a record that does not exist was denied with 403.
C27_Witness ==
    /\ HandlerCalled
    /\ trace.fn.function = "get"
    /\ ~RecordExists(trace.before, trace.id)
    /\ ~trace.run.allowed
    /\ trace.resp.status = 403

\* C28: _update(id, data) raises 404 for a missing record before it
\* validates the data, and 400 for invalid data before it applies any
\* attribute; in both cases no attribute of any record is changed and
\* nothing is committed.
C28_UpdateErrorsChangeNothing ==
    (nreq > 0 /\ ActionRan("_update")) =>
        /\ trace.id \notin DOMAIN trace.before.records =>
              /\ trace.run.exc.kind = "RESTException"
              /\ trace.run.exc.code = 404
              /\ trace.run.validated = "none"
              /\ trace.resp.status = 404
        /\ (trace.id \in DOMAIN trace.before.records
            /\ ~ClaimValidData(trace.data)) =>
              /\ trace.run.exc.kind = "RESTException"
              /\ trace.run.exc.code = 400
              /\ trace.resp.status = 400
        /\ trace.run.exc.kind # "None" =>
              /\ trace.run.db.records = trace.before.records
              /\ trace.run.db.committed = trace.before.committed
              /\ db = trace.before

\* A PUT with invalid data on a record that does not exist ended in 404.
C28_Witness ==
    /\ nreq > 0
    /\ ActionRan("_update")
    /\ trace.id \notin DOMAIN trace.before.records
    /\ ~ClaimValidData(trace.data)
    /\ ~trace.data.isNone
    /\ trace.resp.status = 404

\* C29: for every (verb, route type) entry exposed_methods can yield, the
\* transfer function reaches the handler call with defined positional
\* arguments; no request fails in the transfer function before the handler
\* is invoked.
C29_TransferReachesHandler ==
    (pure_ret.done /\ pure_ret.fn = "transfer_function") =>
        /\ pure_ret.val.called
        /\ pure_ret.val.exc = "None"

\* C30: the docs route of an API never coincides with a resource route: for
\* every registered API and schema, the rule
\* /{base_path}/{api.name}/{api.version}/docs with verb GET differs from
\* every GET rule created for a schema of that API.
C30_DocsRuleIsNoResourceRule ==
    \A i \in DOMAIN calls :
        (IsRegisterCall(calls[i]) /\ calls[i].result = "None") =>
            \A j \in DOMAIN created :
                (/\ created[j].fn.kind = "transfer"
                 /\ created[j].fn.schema = calls[i].s
                 /\ created[j].verb = "GET"
                 /\ \E t \in RouteTypes :
                       created[j].rule =
                           ClaimRule(calls[i].a, SchemaName(calls[i].s), t)) =>
                    created[j].rule # ClaimDocsRule(calls[i].a)


====
